---------------------------- MODULE Spec2Model ----------------------------
(***************************************************************************)
(* Stream-to-aggregate pipeline of the Tasmil Aptos DEX indexer:          *)
(* TasmilProcessor (rolling-window maintenance, upserts, synthetic        *)
(* "aptos" row), VolumeCalculator (per-protocol pool volumes, coin        *)
(* volumes), BucketCalculator (2-hour GMT+7 buckets) and the startup      *)
(* reset task spawned by TasmilProcessor::new.                            *)
(*                                                                         *)
(* Representation.                                                         *)
(*  - Time is Unix seconds (UTC).  A NaiveDateTime is the number of        *)
(*    seconds of its wall-clock reading since 1970-01-01 00:00:00.         *)
(*  - A BigDecimal is an integer count of 10^-DecimalPlaces units; every  *)
(*    raw amount the model feeds in is exactly representable, so no        *)
(*    rounding takes place.                                                *)
(*  - Option<T> is a set with at most one element: {} is None, {v} is      *)
(*    Some(v).                                                             *)
(*  - Every database statement is one atomic step; a statement may fail   *)
(*    while the fault budget allows it.                                    *)
(***************************************************************************)
EXTENDS Integers, Sequences, FiniteSets, TLC

\* ------------------------------------------------------------------------
\* Bounds of the model
\* ------------------------------------------------------------------------
MaxBatches == 2
MaxTxns == 2
MaxFaults == 1
MaxBucketTxns == 13
MaxHours == 24
MaxUnits == 12
MaxNotifications == 3
MaxSwaps == 3

\* ------------------------------------------------------------------------
\* Program constants
\* ------------------------------------------------------------------------
DecimalPlaces == 3
APT_DECIMALS == 8
USDC_DECIMALS == 6
USDT_DECIMALS == 6
WETH_DECIMALS == 6
DEFAULT_FEE_BPS == 30
BPS_DENOMINATOR == 10000
MAX_BUCKETS_PER_COIN == 12
HOUR == 3600
DAY == 86400
WINDOW_HOURS == 24
BUCKET_HOURS == 2
CHANNEL_SIZE == 10
GMT7_OFFSET == 7 * HOUR

Coins == {"APT", "USDC", "USDT", "WETH"}
DappNames == {"sushiswap", "cellana", "thala", "liquidswap", "hyperion"}
ProtocolNames == DappNames \cup {"aptos"}

CELLANA_APT_COIN_TYPE == "0x1::aptos_coin::AptosCoin"
CELLANA_USDC_COIN_TYPE == "0xbae207659db88bea0cbead6da0ed00aac12edcdda169e591cd41c94180b46f3b"
CELLANA_USDT_COIN_TYPE == "0x357b0b74bc833e95a115ad22604854d6b0fca151cecd94111770e5d6ffc9dc2b"
THALA_APT_COIN_TYPE == "0xa"
THALA_USDC_COIN_TYPE == "0xbae207659db88bea0cbead6da0ed00aac12edcdda169e591cd41c94180b46f3b"
THALA_USDT_COIN_TYPE == "0x357b0b74bc833e95a115ad22604854d6b0fca151cecd94111770e5d6ffc9dc2b"
IZUSDT_COIN_TYPE == "0xf22bede237a07e121b56d91a491eb7bcdfd1f5907926a9e58338f964a01b17fa::asset::USDT"
IZUSDC_COIN_TYPE == "0xf22bede237a07e121b56d91a491eb7bcdfd1f5907926a9e58338f964a01b17fa::asset::USDC"
WHUSDC_COIN_TYPE == "0x5e156f1207d0ebfa19a9eeff00d62a282278fb8719f4fab3a586a0a2c0fffbea::coin::T"
WHUSDT_COIN_TYPE == "0x1f9e145308ba2fbd4737c6a08204087f29f5d6bb7d76969cdd79d5fc95e0ae3::coin::T"
IZWETH_COIN_TYPE == "0xf22bede237a07e121b56d91a491eb7bcdfd1f5907926a9e58338f964a01b17fa::asset::WETH"
WHWETH_COIN_TYPE == "0xcc8a89c8dce9693d354449f1f73e60e14e347417854f029db5bc8e7454008abb::coin::T"
UNKNOWN_COIN_TYPE == "0x5::unknown::Token"
\* A token no constant names, with both "USDC" and "USDT" in its identifier
USDC_USDT_LP_TYPE == "0x5::pool::LP<0x5::asset::USDC, 0x5::asset::USDT>"

\* ------------------------------------------------------------------------
\* Option and decimal helpers
\* ------------------------------------------------------------------------
None == {}
Some(v) == {v}
UnwrapOr(o, d) == IF o = {} THEN d ELSE CHOOSE v \in o : TRUE

RECURSIVE Pow10(_)
Pow10(n) == IF n <= 0 THEN 1 ELSE 10 * Pow10(n - 1)

\* The decimal n * 10^-places
Dec(n, places) == (n * Pow10(DecimalPlaces)) \div Pow10(places)

\* raw / 10^decimals as a decimal with DecimalPlaces places
DivPow10(raw, decimals) == raw \div Pow10(decimals - DecimalPlaces)

ZeroByCoin == [c \in Coins |-> 0]

\* str.contains(needle) over the token identifiers of the model
Contains(token, needle) ==
    CASE needle = "USDC" -> token \in {IZUSDC_COIN_TYPE, USDC_USDT_LP_TYPE}
      [] needle = "USDT" -> token \in {IZUSDT_COIN_TYPE, USDC_USDT_LP_TYPE}
      [] needle = "WETH" -> token = IZWETH_COIN_TYPE
      [] OTHER -> FALSE

\* VolumeCalculator::token_type_to_coin
\* whUSDC taken for USDT
token_type_to_coin_miswrapped(token_type) ==
    IF token_type \in {CELLANA_APT_COIN_TYPE, THALA_APT_COIN_TYPE}
    THEN Some("APT")
    ELSE IF Contains(token_type, "USDC")
            \/ token_type \in {CELLANA_USDC_COIN_TYPE, THALA_USDC_COIN_TYPE,
                               IZUSDC_COIN_TYPE}
    THEN Some("USDC")
    ELSE IF Contains(token_type, "USDT")
            \/ token_type \in {CELLANA_USDT_COIN_TYPE, THALA_USDT_COIN_TYPE,
                               IZUSDT_COIN_TYPE, WHUSDT_COIN_TYPE, WHUSDC_COIN_TYPE}
    THEN Some("USDT")
    ELSE IF Contains(token_type, "WETH")
            \/ token_type \in {IZWETH_COIN_TYPE, WHWETH_COIN_TYPE}
    THEN Some("WETH")
    ELSE None

token_type_to_coin(token_type) ==
    IF token_type \in {CELLANA_APT_COIN_TYPE, THALA_APT_COIN_TYPE}
    THEN Some("APT")
    ELSE IF Contains(token_type, "USDC")
            \/ token_type \in {CELLANA_USDC_COIN_TYPE, THALA_USDC_COIN_TYPE,
                               IZUSDC_COIN_TYPE, WHUSDC_COIN_TYPE}
    THEN Some("USDC")
    ELSE IF Contains(token_type, "USDT")
            \/ token_type \in {CELLANA_USDT_COIN_TYPE, THALA_USDT_COIN_TYPE,
                               IZUSDT_COIN_TYPE, WHUSDT_COIN_TYPE}
    THEN Some("USDT")
    ELSE IF Contains(token_type, "WETH")
            \/ token_type \in {IZWETH_COIN_TYPE, WHWETH_COIN_TYPE}
    THEN Some("WETH")
    ELSE None

\* A normalisation whose USDC arm lacks the wrapped USDC that
\* token_type_to_coin takes for USDC
normalize_token_amount_unwrapped(token_type, raw_amount) ==
    IF token_type \in {CELLANA_APT_COIN_TYPE, THALA_APT_COIN_TYPE}
    THEN DivPow10(raw_amount, APT_DECIMALS)
    ELSE IF Contains(token_type, "USDC")
            \/ token_type \in {CELLANA_USDC_COIN_TYPE, THALA_USDC_COIN_TYPE,
                               IZUSDC_COIN_TYPE}
    THEN DivPow10(raw_amount, USDC_DECIMALS)
    ELSE IF Contains(token_type, "USDT")
            \/ token_type \in {CELLANA_USDT_COIN_TYPE, THALA_USDT_COIN_TYPE,
                               IZUSDT_COIN_TYPE, WHUSDT_COIN_TYPE}
    THEN DivPow10(raw_amount, USDT_DECIMALS)
    ELSE IF Contains(token_type, "WETH")
            \/ token_type \in {IZWETH_COIN_TYPE, WHWETH_COIN_TYPE}
    THEN DivPow10(raw_amount, WETH_DECIMALS)
    ELSE raw_amount * Pow10(DecimalPlaces)

\* VolumeCalculator::normalize_token_amount
\* APT divided like a 6-decimal token
normalize_token_amount_six(token_type, raw_amount) ==
    IF token_type \in {CELLANA_APT_COIN_TYPE, THALA_APT_COIN_TYPE}
    THEN DivPow10(raw_amount, USDC_DECIMALS)
    ELSE IF Contains(token_type, "USDC")
            \/ token_type \in {CELLANA_USDC_COIN_TYPE, THALA_USDC_COIN_TYPE,
                               IZUSDC_COIN_TYPE, WHUSDC_COIN_TYPE}
    THEN DivPow10(raw_amount, USDC_DECIMALS)
    ELSE IF Contains(token_type, "USDT")
            \/ token_type \in {CELLANA_USDT_COIN_TYPE, THALA_USDT_COIN_TYPE,
                               IZUSDT_COIN_TYPE, WHUSDT_COIN_TYPE}
    THEN DivPow10(raw_amount, USDT_DECIMALS)
    ELSE IF Contains(token_type, "WETH")
            \/ token_type \in {IZWETH_COIN_TYPE, WHWETH_COIN_TYPE}
    THEN DivPow10(raw_amount, WETH_DECIMALS)
    ELSE raw_amount * Pow10(DecimalPlaces)

normalize_token_amount(token_type, raw_amount) ==
    IF token_type \in {CELLANA_APT_COIN_TYPE, THALA_APT_COIN_TYPE}
    THEN DivPow10(raw_amount, APT_DECIMALS)
    ELSE IF Contains(token_type, "USDC")
            \/ token_type \in {CELLANA_USDC_COIN_TYPE, THALA_USDC_COIN_TYPE,
                               IZUSDC_COIN_TYPE, WHUSDC_COIN_TYPE}
    THEN DivPow10(raw_amount, USDC_DECIMALS)
    ELSE IF Contains(token_type, "USDT")
            \/ token_type \in {CELLANA_USDT_COIN_TYPE, THALA_USDT_COIN_TYPE,
                               IZUSDT_COIN_TYPE, WHUSDT_COIN_TYPE}
    THEN DivPow10(raw_amount, USDT_DECIMALS)
    ELSE IF Contains(token_type, "WETH")
            \/ token_type \in {IZWETH_COIN_TYPE, WHWETH_COIN_TYPE}
    THEN DivPow10(raw_amount, WETH_DECIMALS)
    ELSE raw_amount * Pow10(DecimalPlaces)

\* ------------------------------------------------------------------------
\* Per-protocol pool accumulators (PoolVolume maps)
\* ------------------------------------------------------------------------
DefaultPoolVolume ==
    [vol |-> ZeroByCoin, fee |-> ZeroByCoin, buy |-> ZeroByCoin, sell |-> ZeroByCoin]

\* HashMap::entry(key).or_insert_with(default)
EntryOrDefault(pool_volumes, key) ==
    IF key \in DOMAIN pool_volumes THEN pool_volumes[key] ELSE DefaultPoolVolume

PutEntry(pool_volumes, key, entry) ==
    [k \in (DOMAIN pool_volumes) \cup {key} |->
        IF k = key THEN entry ELSE pool_volumes[k]]

\* The four "+=" groups every swap arm performs on its pool entry: the sold
\* coin's total and sell volume grow by sold_volume, its fee by fee_amount,
\* the bought coin's total and buy volume by bought_amount.
AddSwapToEntry(entry, sold, bought, sold_volume, fee_amount, bought_amount) ==
    LET vol1 == [entry.vol EXCEPT ![sold] = @ + sold_volume]
        vol2 == [vol1 EXCEPT ![bought] = @ + bought_amount]
    IN [vol  |-> vol2,
        fee  |-> [entry.fee EXCEPT ![sold] = @ + fee_amount],
        buy  |-> [entry.buy EXCEPT ![bought] = @ + bought_amount],
        sell |-> [entry.sell EXCEPT ![sold] = @ + sold_volume]]

CoinDecimals(coin) ==
    CASE coin = "APT" -> APT_DECIMALS
      [] coin = "USDC" -> USDC_DECIMALS
      [] coin = "USDT" -> USDT_DECIMALS
      [] coin = "WETH" -> WETH_DECIMALS

\* Cellana: the token pairs process_swap matches, by its own constants
CellanaCoin(token) ==
    CASE token = CELLANA_APT_COIN_TYPE -> Some("APT")
      [] token = CELLANA_USDC_COIN_TYPE -> Some("USDC")
      [] token = CELLANA_USDT_COIN_TYPE -> Some("USDT")
      [] OTHER -> None

\* The loop of CellanaProcessor::extract_swap_fee_bps over the changes of the
\* transaction: the first LiquidityPool write-resource at the pool address
\* that holds a swap_fee_bps, or else a fee_rate, decides
RECURSIVE FindPoolFee(_, _, _)
FindPoolFee(changes, pool_address, i) ==
    IF i > Len(changes) THEN DEFAULT_FEE_BPS
    ELSE LET resource == changes[i]
         IN IF resource.address = pool_address /\ resource.liquidity_pool
            THEN IF resource.swap_fee_bps # None
                 THEN UnwrapOr(resource.swap_fee_bps, 0)
                 ELSE IF resource.fee_rate # None
                 THEN UnwrapOr(resource.fee_rate, 0)
                 ELSE FindPoolFee(changes, pool_address, i + 1)
            ELSE FindPoolFee(changes, pool_address, i + 1)

\* A fee that is always the default
extract_swap_fee_bps_default(changes, pool_address) == DEFAULT_FEE_BPS

\* CellanaProcessor::extract_swap_fee_bps: 30 when the transaction has no
\* info or no change gives a value
extract_swap_fee_bps(changes, pool_address) ==
    IF changes = None THEN DEFAULT_FEE_BPS
    ELSE FindPoolFee(UnwrapOr(changes, << >>), pool_address, 1)

\* CellanaProcessor::process_swap with process_apt_usdc_swap,
\* process_usdt_usdc_swap and process_apt_usdt_swap
CellanaProcessSwap(pool_volumes, sd) ==
    LET entry == EntryOrDefault(pool_volumes, sd.pool)
        from == CellanaCoin(sd.from_token)
        to   == CellanaCoin(sd.to_token)
    IN IF from # None /\ to # None /\ from # to
       THEN LET f == UnwrapOr(from, "APT")
                t == UnwrapOr(to, "APT")
                in_amount  == DivPow10(sd.amount_in, CoinDecimals(f))
                out_amount == DivPow10(sd.amount_out, CoinDecimals(t))
                fee        == (in_amount * sd.swap_fee_bps) \div BPS_DENOMINATOR
                net_volume == in_amount - fee
            IN PutEntry(pool_volumes, sd.pool,
                        AddSwapToEntry(entry, f, t, net_volume, fee, out_amount))
       ELSE PutEntry(pool_volumes, sd.pool, entry)

ThalaCoin(token) ==
    CASE token = THALA_APT_COIN_TYPE -> Some("APT")
      [] token = THALA_USDC_COIN_TYPE -> Some("USDC")
      [] token = THALA_USDT_COIN_TYPE -> Some("USDT")
      [] OTHER -> None

\* ThalaProcessor::process_swap, process_thala_swap and process_swap_pair
ThalaProcessSwap(pool_volumes, sd) ==
    LET entry == EntryOrDefault(pool_volumes, sd.pool)
        from == ThalaCoin(sd.from_token)
        to   == ThalaCoin(sd.to_token)
    IN IF from # None /\ to # None /\ from # to
       THEN LET f == UnwrapOr(from, "APT")
                t == UnwrapOr(to, "APT")
                from_amount == DivPow10(sd.amount_in, CoinDecimals(f))
                to_amount   == DivPow10(sd.amount_out, CoinDecimals(t))
                fee_amount  == DivPow10(sd.protocol_fee_amount, CoinDecimals(f))
                net_volume  == from_amount - fee_amount
            IN PutEntry(pool_volumes, sd.pool,
                        AddSwapToEntry(entry, f, t, net_volume, fee_amount, to_amount))
       ELSE PutEntry(pool_volumes, sd.pool, entry)

\* HyperionProcessor::process_swap: four pairs, the sold coin's volume grows
\* by the whole input amount
HyperionPairs ==
    {<<"USDT", "USDC">>, <<"USDC", "USDT">>, <<"APT", "USDT">>, <<"USDT", "APT">>}

HyperionProcessSwap(pool_volumes, sd) ==
    LET entry == EntryOrDefault(pool_volumes, sd.pool)
        from == ThalaCoin(sd.from_token)
        to   == ThalaCoin(sd.to_token)
    IN IF from # None /\ to # None
          /\ <<UnwrapOr(from, "APT"), UnwrapOr(to, "APT")>> \in HyperionPairs
       THEN LET f == UnwrapOr(from, "APT")
                t == UnwrapOr(to, "APT")
                in_amount  == DivPow10(sd.amount_in, CoinDecimals(f))
                out_amount == DivPow10(sd.amount_out, CoinDecimals(t))
                fee        == DivPow10(sd.protocol_fee_amount, CoinDecimals(f))
            IN PutEntry(pool_volumes, sd.pool,
                        AddSwapToEntry(entry, f, t, in_amount, fee, out_amount))
       ELSE PutEntry(pool_volumes, sd.pool, entry)

\* SushiSwapProcessor::is_supported_pair, as unordered token pairs
SushiSupportedPairs ==
    {{CELLANA_APT_COIN_TYPE, IZUSDT_COIN_TYPE}, {CELLANA_APT_COIN_TYPE, IZUSDC_COIN_TYPE},
     {CELLANA_APT_COIN_TYPE, WHUSDC_COIN_TYPE}, {CELLANA_APT_COIN_TYPE, IZWETH_COIN_TYPE},
     {IZWETH_COIN_TYPE, IZUSDC_COIN_TYPE}, {WHUSDC_COIN_TYPE, IZUSDC_COIN_TYPE}}

\* LiquidSwapProcessor::is_supported_pair, as unordered token pairs
LiquidSupportedPairs ==
    {{CELLANA_APT_COIN_TYPE, IZUSDC_COIN_TYPE}, {CELLANA_APT_COIN_TYPE, IZUSDT_COIN_TYPE},
     {CELLANA_APT_COIN_TYPE, WHUSDT_COIN_TYPE}, {CELLANA_APT_COIN_TYPE, IZWETH_COIN_TYPE},
     {CELLANA_APT_COIN_TYPE, WHWETH_COIN_TYPE}, {WHUSDC_COIN_TYPE, IZUSDC_COIN_TYPE},
     {IZUSDT_COIN_TYPE, WHUSDT_COIN_TYPE}}

\* The coin a token of an x/y pair is stored under
PairCoin(token) ==
    CASE token = CELLANA_APT_COIN_TYPE -> "APT"
      [] token \in {IZUSDC_COIN_TYPE, WHUSDC_COIN_TYPE} -> "USDC"
      [] token \in {IZUSDT_COIN_TYPE, WHUSDT_COIN_TYPE} -> "USDT"
      [] token \in {IZWETH_COIN_TYPE, WHWETH_COIN_TYPE} -> "WETH"

\* pair_key of process_sushiswap / process_liquidswap
PairKey(token_x, token_y) ==
    LET cs == {PairCoin(token_x), PairCoin(token_y)}
    IN IF token_x # token_y /\ Cardinality(cs) = 1 THEN <<"same", cs>> ELSE <<"pair", cs>>

\* process_sushiswap / process_liquidswap and their per-pair arms: the
\* direction is read from the non-zero amounts, no fee is charged
XYProcessSwap(pool_volumes, sd, supported) ==
    IF {sd.token_x, sd.token_y} \notin supported \/ sd.token_x = sd.token_y
    THEN pool_volumes
    ELSE LET key   == PairKey(sd.token_x, sd.token_y)
             entry == EntryOrDefault(pool_volumes, key)
             cx    == PairCoin(sd.token_x)
             cy    == PairCoin(sd.token_y)
         IN IF sd.x_in > 0 /\ sd.y_out > 0
            THEN PutEntry(pool_volumes, key,
                     AddSwapToEntry(entry, cx, cy,
                         DivPow10(sd.x_in, CoinDecimals(cx)), 0,
                         DivPow10(sd.y_out, CoinDecimals(cy))))
            ELSE IF sd.y_in > 0 /\ sd.x_out > 0
            THEN PutEntry(pool_volumes, key,
                     AddSwapToEntry(entry, cy, cx,
                         DivPow10(sd.y_in, CoinDecimals(cy)), 0,
                         DivPow10(sd.x_out, CoinDecimals(cx))))
            ELSE PutEntry(pool_volumes, key, entry)

SushiProcessSwap(pool_volumes, sd) == XYProcessSwap(pool_volumes, sd, SushiSupportedPairs)
LiquidProcessSwap(pool_volumes, sd) == XYProcessSwap(pool_volumes, sd, LiquidSupportedPairs)

\* ------------------------------------------------------------------------
\* VolumeCalculator
\* ------------------------------------------------------------------------
\* A filter that lets every transaction through
is_within_24h_unfiltered(txn_timestamp_seconds, now_seconds) == TRUE

\* is_within_24h of volume_calculator.rs, with the clock reading passed in
is_within_24h(txn_timestamp_seconds, now_seconds) ==
    txn_timestamp_seconds >= now_seconds - WINDOW_HOURS * HOUR

\* The Vec<CoinVolumeData> of a from/to swap (Cellana, Thala, Hyperion)
extract_coin_volumes_from_cellana(sd) ==
    LET from == token_type_to_coin(sd.from_token)
        to   == token_type_to_coin(sd.to_token)
        first == IF from # None
                 THEN << [coin |-> UnwrapOr(from, "APT"),
                          volume |-> normalize_token_amount(sd.from_token, sd.amount_in)] >>
                 ELSE << >>
        second == IF to # None
                  THEN << [coin |-> UnwrapOr(to, "APT"),
                           volume |-> normalize_token_amount(sd.to_token, sd.amount_out)] >>
                  ELSE << >>
    IN first \o second

\* The Vec<CoinVolumeData> of an x/y swap (SushiSwap, LiquidSwap)
extract_coin_volumes_from_sushiswap(sd) ==
    LET cx == token_type_to_coin(sd.token_x)
        cy == token_type_to_coin(sd.token_y)
        vx == IF sd.x_in > 0 THEN sd.x_in ELSE sd.x_out
        vy == IF sd.y_in > 0 THEN sd.y_in ELSE sd.y_out
        first == IF cx # None
                 THEN << [coin |-> UnwrapOr(cx, "APT"),
                          volume |-> normalize_token_amount(sd.token_x, vx)] >>
                 ELSE << >>
        second == IF cy # None
                  THEN << [coin |-> UnwrapOr(cy, "APT"),
                           volume |-> normalize_token_amount(sd.token_y, vy)] >>
                  ELSE << >>
    IN first \o second

EventCoinVolumes(event) ==
    IF event.type \in {"cellana", "thala", "hyperion"}
    THEN extract_coin_volumes_from_cellana(event.sd)
    ELSE extract_coin_volumes_from_sushiswap(event.sd)

EventProcessSwap(pool_volumes, event) ==
    CASE event.type = "cellana" ->
           CellanaProcessSwap(pool_volumes,
               [event.sd EXCEPT !.swap_fee_bps =
                                   extract_swap_fee_bps(event.changes, event.sd.pool)])
      [] event.type = "thala" -> ThalaProcessSwap(pool_volumes, event.sd)
      [] event.type = "sushiswap" -> SushiProcessSwap(pool_volumes, event.sd)
      [] event.type = "liquidswap" -> LiquidProcessSwap(pool_volumes, event.sd)
      [] event.type = "hyperion" -> HyperionProcessSwap(pool_volumes, event.sd)

EmptyPools == [p \in DappNames |-> << >>]
EmptyAcc == [pools |-> EmptyPools, swap_events |-> << >>, panicked |-> FALSE]

\* The payload fields each extractor returns Err without
RequiredFields(event_type) ==
    CASE event_type = "cellana" ->
           {"amount_in", "amount_out", "from_token", "to_token", "pool"}
      [] event_type = "thala" ->
           {"idx_in", "idx_out", "amount_in", "amount_out", "pool_obj", "metadata"}
      [] event_type = "hyperion" ->
           {"amount_in", "amount_out", "from_token", "to_token", "pool_id"}
      [] event_type = "sushiswap" ->
           {"amount_x_in", "amount_x_out", "amount_y_in", "amount_y_out", "user"}
      [] event_type = "liquidswap" -> {"x_in", "x_out", "y_in", "y_out"}

\* An extraction that reads the direction off the metadata order whatever
\* the index pair says
thala_extract_swap_data_in_order(sd) ==
    IF Len(sd.metadata) < 2 THEN None
    ELSE Some([amount_in |-> sd.amount_in, amount_out |-> sd.amount_out,
               from_token |-> sd.metadata[1], to_token |-> sd.metadata[2],
               pool |-> sd.pool,
               protocol_fee_amount |-> sd.protocol_fee_amount])

\* ThalaProcessor::extract_swap_data once the fields are read: the metadata
\* array needs two entries and the index pair tells the direction
\* (metadata[0] is metadata[1] here, sequences starting at 1)
thala_extract_swap_data(sd) ==
    IF Len(sd.metadata) < 2 THEN None
    ELSE LET SwapData(from_token, to_token) ==
                 Some([amount_in |-> sd.amount_in, amount_out |-> sd.amount_out,
                       from_token |-> from_token, to_token |-> to_token,
                       pool |-> sd.pool,
                       protocol_fee_amount |-> sd.protocol_fee_amount])
         IN CASE <<sd.idx_in, sd.idx_out>> = <<0, 1>> ->
                    SwapData(sd.metadata[1], sd.metadata[2])
              [] <<sd.idx_in, sd.idx_out>> = <<1, 0>> ->
                    SwapData(sd.metadata[2], sd.metadata[1])
              [] OTHER -> None

\* An extractor that takes a payload whatever fields it lacks
extract_swap_data_lenient(event) ==
    IF event.type = "thala" THEN thala_extract_swap_data(event.sd) ELSE Some(event.sd)

\* extract_swap_data / extract_sushiswap_data / extract_liquidswap_data: Err
\* (None) when a required field is missing; a missing protocol_fee_amount
\* of Thala and Hyperion reads as "0"
extract_swap_data(event) ==
    IF event.missing \cap RequiredFields(event.type) # {}
    THEN None
    ELSE LET sd == IF /\ event.type \in {"thala", "hyperion"}
                      /\ "protocol_fee_amount" \in event.missing
                   THEN [event.sd EXCEPT !.protocol_fee_amount = 0]
                   ELSE event.sd
         IN IF event.type = "thala" THEN thala_extract_swap_data(sd) ELSE Some(sd)

\* One event of the loop body of VolumeCalculator::process: an event type no
\* branch matches, a payload serde_json cannot parse and a payload the
\* extractor rejects all leave the accumulators alone
ProcessEvent(acc, txn, event) ==
    IF event.type \notin DappNames \/ ~event.json_ok \/ extract_swap_data(event) = None
    THEN acc
    ELSE LET swap_event == [event EXCEPT !.sd = UnwrapOr(extract_swap_data(event), @)]
             coin_volumes == EventCoinVolumes(swap_event)
         IN [pools |-> [acc.pools EXCEPT ![event.type] = EventProcessSwap(@, swap_event)],
             swap_events |->
                IF coin_volumes # << >>
                THEN Append(acc.swap_events,
                            [timestamp_seconds |-> UnwrapOr(txn.timestamp, 0),
                             coin_volumes |-> coin_volumes])
                ELSE acc.swap_events,
             panicked |-> acc.panicked]

RECURSIVE ProcessEvents(_, _, _, _)
ProcessEvents(acc, txn, events, i) ==
    IF i > Len(events) THEN acc
    ELSE ProcessEvents(ProcessEvent(acc, txn, events[i]), txn, events, i + 1)

\* The transaction loop of VolumeCalculator::process;
\* txn.timestamp.as_ref().unwrap() panics on a transaction without timestamp
\* and the loop ends there
RECURSIVE ProcessTxns(_, _, _, _)
ProcessTxns(acc, txns, i, now_seconds) ==
    IF i > Len(txns) THEN acc
    ELSE LET txn == txns[i]
         IN IF txn.timestamp = None
            THEN [acc EXCEPT !.panicked = TRUE]
            ELSE IF ~is_within_24h(UnwrapOr(txn.timestamp, 0), now_seconds)
                    \/ txn.txn_data # "User"
            THEN ProcessTxns(acc, txns, i + 1, now_seconds)
            ELSE ProcessTxns(ProcessEvents(acc, txn, txn.events, 1), txns, i + 1, now_seconds)

RECURSIVE SumOverPools(_, _, _, _)
SumOverPools(pool_volumes, keys, field, coin) ==
    IF keys = {} THEN 0
    ELSE LET k == CHOOSE x \in keys : TRUE
         IN pool_volumes[k][field][coin]
            + SumOverPools(pool_volumes, keys \ {k}, field, coin)

ProtocolTotal(pools, protocol, field, coin) ==
    SumOverPools(pools[protocol], DOMAIN pools[protocol], field, coin)

\* The columns each protocol's NewAptData carries a value for
VolumeCoinsOf(protocol) ==
    IF protocol \in {"sushiswap", "liquidswap"} THEN Coins ELSE Coins \ {"WETH"}

FeeCoinsOf(protocol) ==
    IF protocol \in {"sushiswap", "liquidswap"} THEN {} ELSE Coins \ {"WETH"}

\* The NewAptData of one protocol, as a sequence of zero or one record
ProtocolResult(pools, protocol) ==
    IF \E c \in VolumeCoinsOf(protocol) : ProtocolTotal(pools, protocol, "vol", c) > 0
    THEN << [protocol_name |-> protocol,
             vol |-> [c \in Coins |-> IF c \in VolumeCoinsOf(protocol)
                                      THEN Some(ProtocolTotal(pools, protocol, "vol", c))
                                      ELSE None],
             fee |-> [c \in Coins |-> IF c \in FeeCoinsOf(protocol)
                                      THEN Some(ProtocolTotal(pools, protocol, "fee", c))
                                      ELSE None]] >>
    ELSE << >>

\* results, in the order process pushes them
CollapseResults(pools) ==
    ProtocolResult(pools, "cellana") \o ProtocolResult(pools, "thala")
    \o ProtocolResult(pools, "sushiswap") \o ProtocolResult(pools, "liquidswap")
    \o ProtocolResult(pools, "hyperion")

\* Sum of the volumes of the CoinVolumeData of coin in one swap event
RECURSIVE CoinVolumeIn(_, _, _)
CoinVolumeIn(coin_volumes, coin, i) ==
    IF i > Len(coin_volumes) THEN 0
    ELSE (IF coin_volumes[i].coin = coin THEN coin_volumes[i].volume ELSE 0)
         + CoinVolumeIn(coin_volumes, coin, i + 1)

RECURSIVE TotalCoinVolume(_, _, _)
TotalCoinVolume(swap_events, coin, i) ==
    IF i > Len(swap_events) THEN 0
    ELSE CoinVolumeIn(swap_events[i].coin_volumes, coin, 1)
         + TotalCoinVolume(swap_events, coin, i + 1)

\* VolumeCalculator::calculate_24h_coin_volumes; the records come out of a
\* HashMap, so the result is a set and its order is chosen by the writer
calculate_24h_coin_volumes(swap_events) ==
    {[coin |-> c,
      buy_volume |-> Some(TotalCoinVolume(swap_events, c, 1)),
      sell_volume |-> Some(TotalCoinVolume(swap_events, c, 1))] :
        c \in {c \in Coins : \E i \in 1..Len(swap_events) :
                 \E j \in 1..Len(swap_events[i].coin_volumes) :
                     swap_events[i].coin_volumes[j].coin = c}}

\* ------------------------------------------------------------------------
\* BucketCalculator
\* ------------------------------------------------------------------------
\* BucketCalculator::calculate_bucket_range: the GMT+7 wall-clock 2-hour
\* slot of a Unix timestamp, as the pair <<bucket_start, bucket_end>>
\* The bucket of the UTC wall clock instead of that of GMT+7
calculate_bucket_range_utc(timestamp_seconds) ==
    LET gmt7_dt == timestamp_seconds
        date_naive == (gmt7_dt \div DAY) * DAY
        hour == (gmt7_dt % DAY) \div HOUR
        bucket_start_hour == (hour \div 2) * 2
        bucket_end_hour == bucket_start_hour + 2
        bucket_start == date_naive + bucket_start_hour * HOUR
        bucket_end == IF bucket_end_hour >= 24
                      THEN date_naive + DAY
                      ELSE date_naive + bucket_end_hour * HOUR
    IN <<bucket_start, bucket_end>>

calculate_bucket_range(timestamp_seconds) ==
    LET gmt7_dt == timestamp_seconds + GMT7_OFFSET
        date_naive == (gmt7_dt \div DAY) * DAY
        hour == (gmt7_dt % DAY) \div HOUR
        bucket_start_hour == (hour \div 2) * 2
        bucket_end_hour == bucket_start_hour + 2
        bucket_start == date_naive + bucket_start_hour * HOUR
        bucket_end == IF bucket_end_hour >= 24
                      THEN date_naive + DAY
                      ELSE date_naive + bucket_end_hour * HOUR
    IN <<bucket_start, bucket_end>>

\* A window test that lets every swap through
bucket_is_within_24h_always(timestamp_seconds, current_timestamp) == TRUE

\* A window test of the bucket calculator narrower than the 24 hours of the
\* transaction filter
bucket_is_within_12h(timestamp_seconds, current_timestamp) ==
    timestamp_seconds >= current_timestamp - 12 * HOUR

\* BucketCalculator::is_within_24h
bucket_is_within_24h(timestamp_seconds, current_timestamp) ==
    timestamp_seconds >= current_timestamp - WINDOW_HOURS * HOUR

\* String order of the coin symbols
CoinOrder(coin) ==
    CASE coin = "APT" -> 1 [] coin = "USDC" -> 2 [] coin = "USDT" -> 3 [] coin = "WETH" -> 4

BucketKeyLess(a, b) ==
    \/ CoinOrder(a.coin) < CoinOrder(b.coin)
    \/ a.coin = b.coin /\ a.bucket_start < b.bucket_start
    \/ a.coin = b.coin /\ a.bucket_start = b.bucket_start /\ a.bucket_end < b.bucket_end

RECURSIVE SortBuckets(_)
SortBuckets(records) ==
    IF records = {} THEN << >>
    ELSE LET first == CHOOSE r \in records :
                         \A o \in records \ {r} : BucketKeyLess(r, o)
         IN <<first>> \o SortBuckets(records \ {first})

\* Volume of coin that the swaps of one bucket add up to
RECURSIVE BucketVolume(_, _, _, _, _)
BucketVolume(swap_data, coin, range, current_timestamp, i) ==
    IF i > Len(swap_data) THEN 0
    ELSE (IF bucket_is_within_24h(swap_data[i].timestamp_seconds, current_timestamp)
             /\ calculate_bucket_range(swap_data[i].timestamp_seconds) = range
          THEN CoinVolumeIn(swap_data[i].coin_volumes, coin, 1)
          ELSE 0)
         + BucketVolume(swap_data, coin, range, current_timestamp, i + 1)

\* BucketCalculator::group_swaps_into_buckets
group_swaps_into_buckets(swap_data, current_timestamp) ==
    LET keys == {<<swap_data[i].coin_volumes[j].coin,
                   calculate_bucket_range(swap_data[i].timestamp_seconds)>> :
                    <<i, j>> \in {<<i, j>> \in (1..Len(swap_data)) \X (1..2) :
                        /\ j <= Len(swap_data[i].coin_volumes)
                        /\ bucket_is_within_24h(swap_data[i].timestamp_seconds,
                                                current_timestamp)}}
    IN SortBuckets({[coin |-> k[1],
                     bucket_start |-> k[2][1],
                     bucket_end |-> k[2][2],
                     volume |-> Some(BucketVolume(swap_data, k[1], k[2],
                                                  current_timestamp, 1))] : k \in keys})

EmptyVolumeData ==
    [apt_data |-> << >>, coin_volume_data |-> {}, coin_volume_buckets |-> << >>]

\* Whether VolumeCalculator::process panics on the batch
VolumeCalculatorPanics(transactions, now_seconds) ==
    ProcessTxns(EmptyAcc, transactions, 1, now_seconds).panicked

\* VolumeCalculator::process: the VolumeData of one batch, given the clock
VolumeCalculatorProcess(transactions, now_seconds) ==
    IF transactions = << >> THEN EmptyVolumeData
    ELSE LET acc == ProcessTxns(EmptyAcc, transactions, 1, now_seconds)
         IN [apt_data |-> CollapseResults(acc.pools),
             coin_volume_data |-> calculate_24h_coin_volumes(acc.swap_events),
             coin_volume_buckets |->
                 group_swaps_into_buckets(acc.swap_events, now_seconds)]

\* ------------------------------------------------------------------------
\* Inputs: swap events as the extractors hand them on, transactions, batches
\* ------------------------------------------------------------------------
FromToSwap(protocol, from, to, amount_in, amount_out, fee, pool) ==
    [type |-> protocol,
     changes |-> None,
     json_ok |-> TRUE,
     missing |-> {},
     sd |-> [amount_in |-> amount_in, amount_out |-> amount_out,
             from_token |-> from, to_token |-> to, pool |-> pool,
             protocol_fee_amount |-> fee, swap_fee_bps |-> 0]]

XYSwap(protocol, token_x, token_y, x_in, x_out, y_in, y_out) ==
    [type |-> protocol,
     changes |-> None,
     json_ok |-> TRUE,
     missing |-> {},
     sd |-> [token_x |-> token_x, token_y |-> token_y,
             x_in |-> x_in, x_out |-> x_out, y_in |-> y_in, y_out |-> y_out]]

\* A WriteResource change of a transaction: its address, whether its type is
\* a liquidity_pool::LiquidityPool, and the two fee fields of its data
WriteResource(address, liquidity_pool, swap_fee_bps, fee_rate) ==
    [address |-> address, liquidity_pool |-> liquidity_pool,
     swap_fee_bps |-> swap_fee_bps, fee_rate |-> fee_rate]

\* Cellana APT -> USDC, 1 APT for 500 USDC, the pool charging 30 bps
CellanaAptUsdc ==
    [FromToSwap("cellana", CELLANA_APT_COIN_TYPE, CELLANA_USDC_COIN_TYPE,
                100000000, 500000000, 0, "0xcellana_pool")
     EXCEPT !.changes = Some(<< WriteResource("0xcellana_pool", TRUE, Some(30), None) >>)]

\* The same swap, the pool resource holding a fee_rate of 10 and no
\* swap_fee_bps
CellanaFeeRate ==
    [CellanaAptUsdc EXCEPT
        !.changes = Some(<< WriteResource("0xcellana_pool", TRUE, None, Some(10)) >>)]

\* The same swap, after the resource of another pool and a resource of
\* another type at the pool address; the pool resource holds both values
CellanaBothFees ==
    [CellanaAptUsdc EXCEPT
        !.changes = Some(<< WriteResource("0xother_pool", TRUE, Some(50), None),
                            WriteResource("0xcellana_pool", FALSE, Some(50), None),
                            WriteResource("0xcellana_pool", TRUE, Some(20), Some(10)) >>)]

\* The same swap in a transaction that changes only another pool
CellanaOtherPool ==
    [CellanaAptUsdc EXCEPT
        !.changes = Some(<< WriteResource("0xother_pool", TRUE, Some(50), None) >>)]

\* Cellana, 1 APT for a token the indexer does not know: no pair of
\* process_swap matches
CellanaAptUnknown ==
    FromToSwap("cellana", CELLANA_APT_COIN_TYPE, UNKNOWN_COIN_TYPE,
               100000000, 7, 0, "0xcellana_other_pool")

\* The same swap in a transaction without info
CellanaNoInfo == [CellanaAptUsdc EXCEPT !.changes = None]

\* A Thala swap event as emitted: indices into the metadata array
ThalaSwap(idx_in, idx_out, metadata, amount_in, amount_out, fee, pool) ==
    [type |-> "thala",
     changes |-> None,
     json_ok |-> TRUE,
     missing |-> {},
     sd |-> [idx_in |-> idx_in, idx_out |-> idx_out, metadata |-> metadata,
             amount_in |-> amount_in, amount_out |-> amount_out,
             pool |-> pool, protocol_fee_amount |-> fee]]

\* Thala USDC -> APT, 2 USDC (0.002 USDC protocol fee) for 0.4 APT
ThalaUsdcApt ==
    ThalaSwap(0, 1, << THALA_USDC_COIN_TYPE, THALA_APT_COIN_TYPE >>,
              2000000, 40000000, 2000, "0xthala_pool")

\* idx_in = 1, idx_out = 0: APT is sold for USDC, in another pool
ThalaReversed ==
    ThalaSwap(1, 0, << THALA_USDC_COIN_TYPE, THALA_APT_COIN_TYPE >>,
              30000000, 1000000, 100000, "0xthala_other_pool")

ThalaSameIndex == [ThalaUsdcApt EXCEPT !.sd.idx_out = 0]

ThalaThirdIndex ==
    ThalaSwap(0, 2, << THALA_USDC_COIN_TYPE, THALA_USDT_COIN_TYPE, THALA_APT_COIN_TYPE >>,
              2000000, 40000000, 2000, "0xthala_pool")

ThalaShortMetadata == [ThalaUsdcApt EXCEPT !.sd.metadata = << THALA_USDC_COIN_TYPE >>]

\* Hyperion USDT -> USDC, 3 USDT (0.003 USDT fee) for 3 USDC
HyperionUsdtUsdc ==
    FromToSwap("hyperion", THALA_USDT_COIN_TYPE, THALA_USDC_COIN_TYPE,
               3000000, 3000000, 3000, "0xhyperion_pool")

\* SushiSwap APT/izUSDT, 0.5 APT in for 4 USDT out
SushiAptIzusdt ==
    XYSwap("sushiswap", CELLANA_APT_COIN_TYPE, IZUSDT_COIN_TYPE, 50000000, 0, 0, 4000000)

\* LiquidSwap APT/izWETH, 7 WETH (y) in for 0.2 APT (x) out
LiquidAptIzweth ==
    XYSwap("liquidswap", CELLANA_APT_COIN_TYPE, IZWETH_COIN_TYPE, 0, 20000000, 7000000, 0)

\* SushiSwap APT/izUSDT with both _in amounts non-zero
SushiBothIn ==
    XYSwap("sushiswap", CELLANA_APT_COIN_TYPE, IZUSDT_COIN_TYPE,
           50000000, 0, 1000000, 4000000)

\* LiquidSwap whUSDC/izUSDC, 2 whUSDC (x) in for 2 izUSDC (y) out
LiquidWhusdcIzusdc ==
    XYSwap("liquidswap", WHUSDC_COIN_TYPE, IZUSDC_COIN_TYPE, 2000000, 0, 0, 2000000)

\* An event of a type no branch of the dispatcher matches
UnknownTypeEvent == [CellanaAptUsdc EXCEPT !.type = "unknown"]

\* A Cellana event whose data is not JSON
UnparsableCellana == [CellanaAptUsdc EXCEPT !.json_ok = FALSE]

\* A Thala event whose payload lacks pool_obj
ThalaWithoutPool == [ThalaUsdcApt EXCEPT !.missing = {"pool_obj"}]

\* A SushiSwap event whose payload lacks user
SushiWithoutUser == [SushiAptIzusdt EXCEPT !.missing = {"user"}]

\* Payloads whose amounts no extractor looks at: a protocol fee equal to
\* the input with nothing paid out, a protocol fee above the input, a pool
\* resource with a fee rate above 10000 bps
ThalaFeeIsInput ==
    ThalaSwap(0, 1, << THALA_USDC_COIN_TYPE, THALA_APT_COIN_TYPE >>,
              2000000, 0, 2000000, "0xthala_pool")

ThalaFeeAboveInput ==
    [ThalaFeeIsInput EXCEPT !.sd.protocol_fee_amount = 5000000,
                            !.sd.amount_out = 40000000]

HyperionFeeAboveInput ==
    [HyperionUsdtUsdc EXCEPT !.sd.protocol_fee_amount = 5000000, !.sd.amount_out = 0]

CellanaFeeAbove10000 ==
    [CellanaAptUsdc EXCEPT
        !.changes = Some(<< WriteResource("0xcellana_pool", TRUE, Some(20000), None) >>)]

\* A user transaction with the given events, committed age seconds before
\* the batch is handed over
TxnOf(events, age) == [age |-> Some(age), txn_data |-> "User", events |-> events]

Txn(event, age) == TxnOf(<<event>>, age)

\* A user transaction that carries no timestamp
TxnWithoutTimestamp(event) == [age |-> None, txn_data |-> "User", events |-> <<event>>]

GeneralBatches ==
    { << >>,
      << Txn(CellanaAptUsdc, 1 * HOUR) >>,
      << Txn(CellanaAptUsdc, 30 * HOUR) >>,
      << Txn(ThalaUsdcApt, 20 * HOUR), Txn(SushiAptIzusdt, 3 * HOUR) >>,
      << Txn(HyperionUsdtUsdc, 1 * HOUR), Txn(LiquidAptIzweth, 30 * HOUR) >>,
      << Txn(CellanaAptUsdc, 1 * HOUR), Txn(CellanaAptUsdc, 2 * HOUR),
         Txn(ThalaUsdcApt, 30 * HOUR) >> }

\* n Cellana swaps, one per 2-hour slot, the newest committed just now
SpacedBatch(n) == [i \in 1..n |-> Txn(CellanaAptUsdc, (i - 1) * BUCKET_HOURS * HOUR)]

BucketBatches == {SpacedBatch(n) : n \in {1, MAX_BUCKETS_PER_COIN, MaxBucketTxns}}

\* Batches with events and transactions the extractors have to turn down
EventBatches ==
    { << TxnWithoutTimestamp(CellanaAptUsdc), Txn(ThalaUsdcApt, 1 * HOUR) >>,
      << Txn(SushiBothIn, 1 * HOUR) >>,
      << Txn(LiquidWhusdcIzusdc, 1 * HOUR) >>,
      << Txn(ThalaUsdcApt, 1 * HOUR) >>,
      << Txn(HyperionUsdtUsdc, 1 * HOUR) >>,
      << Txn(CellanaFeeRate, 1 * HOUR) >>,
      << Txn(CellanaBothFees, 1 * HOUR) >>,
      << Txn(CellanaOtherPool, 1 * HOUR) >>,
      << Txn(CellanaNoInfo, 1 * HOUR) >>,
      << Txn(CellanaAptUnknown, 1 * HOUR) >>,
      << TxnOf(<< ThalaReversed, ThalaUsdcApt >>, 1 * HOUR) >>,
      << TxnOf(<< ThalaSameIndex, ThalaThirdIndex, ThalaShortMetadata >>, 1 * HOUR) >>,
      << Txn(ThalaFeeIsInput, 1 * HOUR) >>,
      << TxnOf(<< ThalaFeeAboveInput, HyperionFeeAboveInput, CellanaFeeAbove10000 >>,
               1 * HOUR) >>,
      << TxnOf(<< UnknownTypeEvent, CellanaAptUsdc, ThalaWithoutPool >>, 1 * HOUR),
         TxnOf(<< UnparsableCellana, SushiWithoutUser, HyperionUsdtUsdc >>, 3 * HOUR) >>,
      << TxnOf(<< UnknownTypeEvent, UnparsableCellana >>, 1 * HOUR) >> }

BatchesOf(mode) ==
    CASE mode = "buckets" -> {b \in BucketBatches : Len(b) <= MaxBucketTxns}
      [] mode = "events" -> EventBatches
      [] OTHER -> {b \in GeneralBatches : Len(b) <= MaxTxns}

\* The transactions of a batch template, stamped against the clock
Stamp(batch, now_seconds) ==
    [i \in 1..Len(batch) |->
        [timestamp |-> IF batch[i].age = None THEN None
                       ELSE Some(now_seconds - UnwrapOr(batch[i].age, 0)),
         txn_data |-> batch[i].txn_data,
         events |-> batch[i].events]]

\* ------------------------------------------------------------------------
\* Database rows
\* ------------------------------------------------------------------------
AptRow(vol, fee, inserted_at) == [vol |-> vol, fee |-> fee, inserted_at |-> inserted_at]

ZeroColumns == [c \in Coins |-> Some(0)]

\* Clock reading at start-up: 05:00 UTC, noon in GMT+7
Now0 == 30 * DAY + 5 * HOUR

EmptyDB ==
    [apt_data |-> [p \in ProtocolNames |-> None],
     coin_volume_24h |-> [c \in Coins |-> None],
     coin_volume_buckets |-> {}]

\* What an earlier run left after one Cellana APT -> USDC swap, written
\* age seconds before start-up
ResidueDB(age) ==
    LET at == Now0 - age
        data == VolumeCalculatorProcess(Stamp(<< Txn(CellanaAptUsdc, 0) >>, at), at)
        record == data.apt_data[1]
        row == AptRow([c \in Coins |-> Some(UnwrapOr(record.vol[c], 0))],
                      [c \in Coins |-> Some(UnwrapOr(record.fee[c], 0))], at)
    IN [apt_data |-> [p \in ProtocolNames |->
                        IF p \in {"cellana", "aptos"} THEN Some(row) ELSE None],
        coin_volume_24h |-> [c \in Coins |->
            IF \E r \in data.coin_volume_data : r.coin = c
            THEN LET r == CHOOSE r \in data.coin_volume_data : r.coin = c
                 IN Some([buy_volume |-> r.buy_volume, sell_volume |-> r.sell_volume,
                          inserted_at |-> at])
            ELSE None],
        coin_volume_buckets |->
            {[coin |-> data.coin_volume_buckets[i].coin,
              bucket_start |-> data.coin_volume_buckets[i].bucket_start,
              bucket_end |-> data.coin_volume_buckets[i].bucket_end,
              volume |-> data.coin_volume_buckets[i].volume,
              inserted_at |-> at] : i \in 1..Len(data.coin_volume_buckets)}]

InitialDBs == {EmptyDB, ResidueDB(1 * HOUR), ResidueDB(30 * HOUR)}

\* ------------------------------------------------------------------------
\* State
\* ------------------------------------------------------------------------
VARIABLES
    now,                  \* the clock, Unix seconds
    apt_data,             \* table apt_data: protocol_name -> Option<row>
    coin_volume_24h,      \* table coin_volume_24h: coin -> Option<row>
    coin_volume_buckets,  \* table coin_volume_buckets: set of rows
    pc,                   \* where TasmilProcessor::process stands
    item,                 \* the batch being processed
    vd,                   \* the VolumeData of the batch
    idx,                  \* index of the record loop in progress
    cur,                  \* what the last SELECT of the processor returned
    coins,                \* the distinct coins cleanup_old_buckets iterates
    rpc,                  \* where the start-up reset task stands
    faults,               \* storage failures so far
    budget,               \* storage failures the run may see
    mode,                 \* which batches the stream delivers
    concurrent,           \* whether the first batch may arrive before the reset task ends
    fresh,                \* whether the tables were empty at start-up
    ticks,                \* how often the clock may still advance between batches
    stale,                \* cleanup_old_data found the window expired
    stmtFailed,           \* a statement of the batch in progress failed
    hist,                 \* the batches process has returned from
    call,                 \* the last call of a function applied on its own
    upstream,             \* the output channel of the pipeline: "open" or "closed"
    buffer,               \* the processed batches queued in that channel
    notifications,        \* the progress records queued for the main loop
    loop_pc               \* where the main loop of SwapProcessor stands

vars == <<now, apt_data, coin_volume_24h, coin_volume_buckets, pc, item, vd, idx,
          cur, coins, rpc, faults, budget, mode, concurrent, fresh, ticks, stale, stmtFailed,
          hist, call, upstream, buffer, notifications, loop_pc>>

db == <<apt_data, coin_volume_24h, coin_volume_buckets>>
locals == <<item, vd, idx, cur, coins, stale>>
orchestrator == <<upstream, buffer, notifications, loop_pc>>

env == <<budget, mode, concurrent, fresh, call, orchestrator>>

MaxTicks == 1
TickSteps == {10 * HOUR, 25 * HOUR}

\* vd while no batch is being processed
IdleVolumeData == [EmptyVolumeData EXCEPT !.coin_volume_data = << >>]

\* The state after TasmilProcessor::new returned: the reset task is spawned,
\* no batch has been handed over
NoCall == [fn |-> "none"]

InitWith(dbs, fault_budget, m, conc, tick_budget) ==
    /\ now = Now0
    /\ \E d \in dbs :
         /\ apt_data = d.apt_data
         /\ coin_volume_24h = d.coin_volume_24h
         /\ coin_volume_buckets = d.coin_volume_buckets
         /\ fresh = (d = EmptyDB)
    /\ pc = "idle"
    /\ item = << >>
    /\ vd = IdleVolumeData
    /\ idx = 0
    /\ cur = 0
    /\ coins = << >>
    /\ rpc = "get_conn"
    /\ faults = 0
    /\ budget = fault_budget
    /\ mode = m
    /\ concurrent = conc
    /\ ticks = tick_budget
    /\ stale = FALSE
    /\ stmtFailed = FALSE
    /\ hist = << >>
    /\ call = NoCall
    /\ upstream = "open"
    /\ buffer = 0
    /\ notifications = 0
    /\ loop_pc = "try_recv"

\* Four kinds of run: storage that may fail and a clock that may jump
\* between batches; a first batch racing the reset task; a stream of
\* back-filled batches that span up to a day of 2-hour slots; a stream with
\* events and transactions the extractors have to turn down
Runs ==
    {[faults |-> MaxFaults, mode |-> "general", concurrent |-> FALSE, ticks |-> MaxTicks],
     [faults |-> 0, mode |-> "general", concurrent |-> TRUE, ticks |-> 0],
     [faults |-> 0, mode |-> "buckets", concurrent |-> FALSE, ticks |-> MaxTicks],
     [faults |-> 0, mode |-> "events", concurrent |-> FALSE, ticks |-> 0]}

Init ==
    \E run \in Runs :
        InitWith(InitialDBs, run.faults, run.mode, run.concurrent, run.ticks)

\* Outcomes a storage statement can have: TRUE is success
Outcomes == IF faults < budget THEN {TRUE, FALSE} ELSE {TRUE}

Spend(ok) == faults' = IF ok THEN faults ELSE faults + 1

\* ------------------------------------------------------------------------
\* Statements shared by the start-up reset task and cleanup_old_data
\* ------------------------------------------------------------------------
\* UPDATE apt_data SET <all eight counters> = 0, inserted_at = now
\* A reset that deletes the rows instead of zeroing them
ResetAptDataRowsDeleting(table, at) == [p \in ProtocolNames |-> None]

ResetAptDataRows(table, at) ==
    [p \in ProtocolNames |->
        IF table[p] = None THEN None
        ELSE Some(AptRow(ZeroColumns, ZeroColumns, at))]

\* UPDATE coin_volume_24h SET buy_volume = 0, sell_volume = 0, inserted_at = now
ResetCoinVolumeRows(table, at) ==
    [c \in Coins |->
        IF table[c] = None THEN None
        ELSE Some([buy_volume |-> Some(0), sell_volume |-> Some(0), inserted_at |-> at])]

\* ------------------------------------------------------------------------
\* The reset task spawned by TasmilProcessor::new
\* ------------------------------------------------------------------------
StartupGetConn ==
    /\ rpc = "get_conn"
    /\ \E ok \in Outcomes :
         /\ Spend(ok)
         /\ rpc' = IF ok THEN "reset_apt_data" ELSE "done"
    /\ UNCHANGED <<now, db, pc, locals, env, ticks, stmtFailed, hist>>

StartupResetAptData ==
    /\ rpc = "reset_apt_data"
    /\ \E ok \in Outcomes :
         /\ Spend(ok)
         /\ apt_data' = IF ok THEN ResetAptDataRows(apt_data, now) ELSE apt_data
    /\ rpc' = "reset_coin_volumes"
    /\ UNCHANGED <<now, coin_volume_24h, coin_volume_buckets, pc, locals, env,
                   ticks, stmtFailed, hist>>

StartupResetCoinVolumes ==
    /\ rpc = "reset_coin_volumes"
    /\ \E ok \in Outcomes :
         /\ Spend(ok)
         /\ coin_volume_24h' = IF ok THEN ResetCoinVolumeRows(coin_volume_24h, now)
                               ELSE coin_volume_24h
    /\ rpc' = "reset_buckets"
    /\ UNCHANGED <<now, apt_data, coin_volume_buckets, pc, locals, env,
                   ticks, stmtFailed, hist>>

StartupResetBuckets ==
    /\ rpc = "reset_buckets"
    /\ \E ok \in Outcomes :
         /\ Spend(ok)
         /\ coin_volume_buckets' = IF ok THEN {} ELSE coin_volume_buckets
    /\ rpc' = "done"
    /\ UNCHANGED <<now, apt_data, coin_volume_24h, pc, locals, env,
                   ticks, stmtFailed, hist>>

\* ------------------------------------------------------------------------
\* The environment: the clock, and the stream handing over a batch
\* ------------------------------------------------------------------------
Tick ==
    /\ pc = "idle"
    /\ ticks > 0
    /\ \E d \in TickSteps : now' = now + d
    /\ ticks' = ticks - 1
    /\ UNCHANGED <<db, pc, locals, rpc, faults, env, stmtFailed, hist>>

\* What process leaves behind when it returns: the history entry of the
\* batch, and nothing of its locals
Return(result, sent) ==
    /\ pc' = "idle"
    /\ hist' = Append(hist, [item |-> item, at |-> now, result |-> result,
                             failed |-> stmtFailed' , stale |-> stale,
                             apt_data |-> apt_data, sent |-> sent])
    /\ item' = << >>
    /\ vd' = IdleVolumeData
    /\ idx' = 0
    /\ cur' = 0
    /\ coins' = << >>
    /\ stale' = FALSE

\* A failed statement whose error is propagated with "?" or "return Err"
Abort ==
    /\ stmtFailed' = TRUE
    /\ Return("Err", "none")

\* The stream hands the next batch to process; process starts with
\* cleanup_old_data, which starts with cleanup_old_buckets
\* A stream that hands the next batch over while one is being processed
BatchArrivalOverlapping == rpc = "done" \/ (concurrent /\ hist = << >>)

\* (the reset task, a handful of statements on a fresh connection, is given
\* the span of the first batch to finish in)
BatchArrivalAllowed ==
    /\ pc = "idle"
    /\ rpc = "done" \/ (concurrent /\ hist = << >>)

StartBatch ==
    /\ BatchArrivalAllowed
    /\ Len(hist) < MaxBatches
    /\ \E b \in BatchesOf(mode) : item' = Stamp(b, now)
    /\ pc' = "cleanup_delete_old"
    /\ stmtFailed' = FALSE
    /\ UNCHANGED <<now, db, vd, idx, cur, coins, stale, rpc, faults, env, ticks, hist>>

\* ------------------------------------------------------------------------
\* TasmilProcessor::cleanup_old_buckets
\* ------------------------------------------------------------------------
CutoffTime == now - WINDOW_HOURS * HOUR

\* The elements of a set of coins as a sequence
RECURSIVE CoinSeq(_)
CoinSeq(cs) ==
    IF cs = {} THEN << >>
    ELSE LET c == CHOOSE c \in cs : \A o \in cs : CoinOrder(c) <= CoinOrder(o)
         IN <<c>> \o CoinSeq(cs \ {c})

\* DELETE FROM coin_volume_buckets WHERE bucket_end < cutoff_naive
CleanupDeleteOldBuckets ==
    /\ pc = "cleanup_delete_old"
    /\ \E ok \in Outcomes :
         /\ Spend(ok)
         /\ IF ok
            THEN /\ coin_volume_buckets' =
                        {b \in coin_volume_buckets : ~(b.bucket_end < CutoffTime)}
                 /\ pc' = "cleanup_distinct_coins"
                 /\ UNCHANGED <<item, vd, idx, cur, coins, stale, stmtFailed, hist>>
            ELSE /\ Abort
                 /\ UNCHANGED coin_volume_buckets
    /\ UNCHANGED <<now, apt_data, coin_volume_24h, rpc, env, ticks>>

\* SELECT DISTINCT coin FROM coin_volume_buckets
CleanupDistinctCoins ==
    /\ pc = "cleanup_distinct_coins"
    /\ \E ok \in Outcomes :
         /\ Spend(ok)
         /\ IF ok
            THEN /\ coins' = CoinSeq({b.coin : b \in coin_volume_buckets})
                 /\ idx' = 1
                 /\ pc' = IF coins' = << >> THEN "load_records" ELSE "cleanup_load_buckets"
                 /\ UNCHANGED <<item, vd, cur, stale, stmtFailed, hist>>
            ELSE Abort
    /\ UNCHANGED <<now, db, rpc, env, ticks>>

\* The bucket_start of the n-th newest bucket among starts
RECURSIVE NthNewest(_, _)
NthNewest(starts, n) ==
    LET newest == CHOOSE x \in starts : \A y \in starts : y <= x
    IN IF n = 1 THEN newest ELSE NthNewest(starts \ {newest}, n - 1)

NextCoinPc == IF idx = Len(coins) THEN "load_records" ELSE "cleanup_load_buckets"

\* SELECT coin, bucket_start ... WHERE coin = $1 ORDER BY bucket_start DESC
CleanupLoadBuckets ==
    /\ pc = "cleanup_load_buckets"
    /\ \E ok \in Outcomes :
         /\ Spend(ok)
         /\ IF ok
            THEN LET starts == {b.bucket_start : b \in
                                  {b \in coin_volume_buckets : b.coin = coins[idx]}}
                 IN IF Cardinality(starts) > MAX_BUCKETS_PER_COIN
                    THEN /\ cur' = NthNewest(starts, MAX_BUCKETS_PER_COIN)
                         /\ pc' = "cleanup_delete_excess"
                         /\ UNCHANGED <<item, vd, idx, coins, stale, stmtFailed, hist>>
                    ELSE /\ idx' = idx + 1
                         /\ pc' = NextCoinPc
                         /\ UNCHANGED <<item, vd, cur, coins, stale, stmtFailed, hist>>
            ELSE Abort
    /\ UNCHANGED <<now, db, rpc, env, ticks>>

\* A cap DELETE without the filter on the coin
CleanupDeleteExcessAnyCoin ==
    /\ pc = "cleanup_delete_excess"
    /\ \E ok \in Outcomes :
         /\ Spend(ok)
         /\ coin_volume_buckets' =
               IF ok
               THEN {b \in coin_volume_buckets : ~(b.bucket_start < cur)}
               ELSE coin_volume_buckets
         /\ stmtFailed' = (stmtFailed \/ ~ok)
    /\ idx' = idx + 1
    /\ pc' = NextCoinPc
    /\ UNCHANGED <<now, apt_data, coin_volume_24h, item, vd, cur, coins, stale,
                   rpc, env, ticks, hist>>

\* DELETE ... WHERE coin = $1 AND bucket_start < oldest_bucket_to_keep; an
\* error is logged and the loop goes on
CleanupDeleteExcess ==
    /\ pc = "cleanup_delete_excess"
    /\ \E ok \in Outcomes :
         /\ Spend(ok)
         /\ coin_volume_buckets' =
               IF ok
               THEN {b \in coin_volume_buckets :
                        ~(b.coin = coins[idx] /\ b.bucket_start < cur)}
               ELSE coin_volume_buckets
         /\ stmtFailed' = (stmtFailed \/ ~ok)
    /\ idx' = idx + 1
    /\ pc' = NextCoinPc
    /\ UNCHANGED <<now, apt_data, coin_volume_24h, item, vd, cur, coins, stale,
                   rpc, env, ticks, hist>>

\* ------------------------------------------------------------------------
\* TasmilProcessor::cleanup_old_data, after cleanup_old_buckets
\* ------------------------------------------------------------------------
AptRows(table) == {UnwrapOr(table[p], 0) : p \in {p \in ProtocolNames : table[p] # None}}

LatestUpdate(table) ==
    CHOOSE t \in {r.inserted_at : r \in AptRows(table)} :
        \A r \in AptRows(table) : r.inserted_at <= t

\* SELECT * FROM apt_data, and the decision taken on max(inserted_at)
LoadCurrentRecords ==
    /\ pc = "load_records"
    /\ \E ok \in Outcomes :
         /\ Spend(ok)
         /\ IF ok
            THEN /\ stale' = (AptRows(apt_data) # {}
                              /\ LatestUpdate(apt_data) < CutoffTime)
                 /\ pc' = IF stale' THEN "reset_apt_data" ELSE "calculate"
                 /\ UNCHANGED <<item, vd, idx, cur, coins, stmtFailed, hist>>
            ELSE Abort
    /\ UNCHANGED <<now, db, rpc, env, ticks>>

\* UPDATE apt_data SET ... = 0; an error is logged and cleanup goes on
ResetAptData ==
    /\ pc = "reset_apt_data"
    /\ \E ok \in Outcomes :
         /\ Spend(ok)
         /\ apt_data' = IF ok THEN ResetAptDataRows(apt_data, now) ELSE apt_data
         /\ stmtFailed' = (stmtFailed \/ ~ok)
    /\ pc' = "reset_coin_volumes"
    /\ UNCHANGED <<now, coin_volume_24h, coin_volume_buckets, locals, rpc, env,
                   ticks, hist>>

\* UPDATE coin_volume_24h SET ... = 0; an error is logged and cleanup goes on
ResetCoinVolumes ==
    /\ pc = "reset_coin_volumes"
    /\ \E ok \in Outcomes :
         /\ Spend(ok)
         /\ coin_volume_24h' = IF ok THEN ResetCoinVolumeRows(coin_volume_24h, now)
                               ELSE coin_volume_24h
         /\ stmtFailed' = (stmtFailed \/ ~ok)
    /\ pc' = "reset_buckets"
    /\ UNCHANGED <<now, apt_data, coin_volume_buckets, locals, rpc, env, ticks, hist>>

\* DELETE FROM coin_volume_buckets; an error is logged and cleanup returns Ok
ResetBuckets ==
    /\ pc = "reset_buckets"
    /\ \E ok \in Outcomes :
         /\ Spend(ok)
         /\ coin_volume_buckets' = IF ok THEN {} ELSE coin_volume_buckets
         /\ stmtFailed' = (stmtFailed \/ ~ok)
    /\ pc' = "calculate"
    /\ UNCHANGED <<now, apt_data, coin_volume_24h, locals, rpc, env, ticks, hist>>

\* ------------------------------------------------------------------------
\* TasmilProcessor::process, after cleanup_old_data
\* ------------------------------------------------------------------------
\* The orders a HashMap may yield the records of a set in
Orderings(records) ==
    {f \in [1..Cardinality(records) -> records] :
        \A i, j \in 1..Cardinality(records) : i # j => f[i] # f[j]}

\* Where process goes on once upsert_pool_volumes returned Ok
StageAfterCoins(data) ==
    IF data.coin_volume_buckets # << >> THEN "bucket_read" ELSE "return"

StageAfterPools(data) ==
    IF data.coin_volume_data # << >> THEN "coin_read" ELSE StageAfterCoins(data)

\* self.volume_calculator.process(item.clone()), then the entry into
\* upsert_pool_volumes, which returns at once on an empty Vec.  A panic of
\* the calculator unwinds the task that runs process: the batch is never
\* returned from and no further batch is taken.
Calculate ==
    /\ pc = "calculate"
    /\ IF VolumeCalculatorPanics(item, now)
       THEN /\ pc' = "panicked"
            /\ UNCHANGED <<vd, idx>>
       ELSE /\ LET data == VolumeCalculatorProcess(item, now)
               IN \E order \in Orderings(data.coin_volume_data) :
                    vd' = [data EXCEPT !.coin_volume_data = order]
            /\ idx' = 1
            /\ pc' = IF vd'.apt_data # << >> THEN "get_current_volumes"
                     ELSE StageAfterPools(vd')
    /\ UNCHANGED <<now, db, item, cur, coins, stale, rpc, faults, env, ticks,
                   stmtFailed, hist>>

\* The eight counters of a row, NULL read as zero; zero when there is no row
CountersOf(row_option) ==
    IF row_option = None
    THEN [vol |-> ZeroByCoin, fee |-> ZeroByCoin]
    ELSE LET row == UnwrapOr(row_option, 0)
         IN [vol |-> [c \in Coins |-> UnwrapOr(row.vol[c], 0)],
             fee |-> [c \in Coins |-> UnwrapOr(row.fee[c], 0)]]

\* TasmilProcessor::get_current_volumes for the record at idx
GetCurrentVolumes ==
    /\ pc = "get_current_volumes"
    /\ \E ok \in Outcomes :
         /\ Spend(ok)
         /\ IF ok
            THEN /\ cur' = CountersOf(apt_data[vd.apt_data[idx].protocol_name])
                 /\ pc' = "upsert_protocol"
                 /\ UNCHANGED <<item, vd, idx, coins, stale, stmtFailed, hist>>
            ELSE Abort
    /\ UNCHANGED <<now, db, rpc, env, ticks>>

\* An upsert loop that goes on to the 'aptos' row after its first record
UpsertProtocolThenAptos ==
    /\ pc = "upsert_protocol"
    /\ \E ok \in Outcomes :
         /\ Spend(ok)
         /\ IF ok
            THEN LET record == vd.apt_data[idx]
                     row == AptRow(
                        [c \in Coins |-> Some(cur.vol[c] + UnwrapOr(record.vol[c], 0))],
                        [c \in Coins |-> Some(cur.fee[c] + UnwrapOr(record.fee[c], 0))],
                        now)
                 IN /\ apt_data' = [apt_data EXCEPT ![record.protocol_name] = Some(row)]
                    /\ idx' = idx + 1
                    /\ pc' = "aptos_load"
                    /\ UNCHANGED <<item, vd, cur, coins, stale, stmtFailed, hist>>
            ELSE /\ Abort
                 /\ UNCHANGED apt_data
    /\ UNCHANGED <<now, coin_volume_24h, coin_volume_buckets, rpc, env, ticks>>

\* INSERT INTO apt_data ... ON CONFLICT (protocol_name) DO UPDATE with the
\* sums of what was read and the batch's record
UpsertProtocol ==
    /\ pc = "upsert_protocol"
    /\ \E ok \in Outcomes :
         /\ Spend(ok)
         /\ IF ok
            THEN LET record == vd.apt_data[idx]
                     row == AptRow(
                        [c \in Coins |-> Some(cur.vol[c] + UnwrapOr(record.vol[c], 0))],
                        [c \in Coins |-> Some(cur.fee[c] + UnwrapOr(record.fee[c], 0))],
                        now)
                 IN /\ apt_data' = [apt_data EXCEPT ![record.protocol_name] = Some(row)]
                    /\ idx' = idx + 1
                    /\ pc' = IF idx = Len(vd.apt_data) THEN "aptos_load"
                             ELSE "get_current_volumes"
                    /\ UNCHANGED <<item, vd, cur, coins, stale, stmtFailed, hist>>
            ELSE /\ Abort
                 /\ UNCHANGED apt_data
    /\ UNCHANGED <<now, coin_volume_24h, coin_volume_buckets, rpc, env, ticks>>

\* ------------------------------------------------------------------------
\* TasmilProcessor::upsert_aptos_aggregated_data
\* ------------------------------------------------------------------------
RECURSIVE SumCounters(_, _, _, _)
SumCounters(table, protocols, field, coin) ==
    IF protocols = {} THEN 0
    ELSE LET p == CHOOSE x \in protocols : TRUE
         IN CountersOf(table[p])[field][coin]
            + SumCounters(table, protocols \ {p}, field, coin)

\* The totals over the rows of the five dapps
DappTotals(table) ==
    [vol |-> [c \in Coins |-> SumCounters(table, DappNames, "vol", c)],
     fee |-> [c \in Coins |-> SumCounters(table, DappNames, "fee", c)]]

\* SELECT * FROM apt_data WHERE protocol_name IN (dapp_names), and the sums
AptosLoad ==
    /\ pc = "aptos_load"
    /\ \E ok \in Outcomes :
         /\ Spend(ok)
         /\ IF ok
            THEN /\ IF \A p \in DappNames : apt_data[p] = None
                    THEN /\ pc' = StageAfterPools(vd)
                         /\ cur' = cur
                    ELSE /\ pc' = "aptos_upsert"
                         /\ cur' = DappTotals(apt_data)
                 /\ idx' = 1
                 /\ UNCHANGED <<item, vd, coins, stale, stmtFailed, hist>>
            ELSE Abort
    /\ UNCHANGED <<now, db, rpc, env, ticks>>

\* INSERT INTO apt_data ('aptos', totals) ON CONFLICT DO UPDATE
AptosUpsert ==
    /\ pc = "aptos_upsert"
    /\ \E ok \in Outcomes :
         /\ Spend(ok)
         /\ IF ok
            THEN /\ apt_data' = [apt_data EXCEPT !["aptos"] =
                        Some(AptRow([c \in Coins |-> Some(cur.vol[c])],
                                    [c \in Coins |-> Some(cur.fee[c])], now))]
                 /\ pc' = StageAfterPools(vd)
                 /\ UNCHANGED <<item, vd, idx, cur, coins, stale, stmtFailed, hist>>
            ELSE /\ Abort
                 /\ UNCHANGED apt_data
    /\ UNCHANGED <<now, coin_volume_24h, coin_volume_buckets, rpc, env, ticks>>

\* ------------------------------------------------------------------------
\* TasmilProcessor::upsert_coin_volumes
\* ------------------------------------------------------------------------
\* SELECT * FROM coin_volume_24h WHERE coin = $1
CoinRead ==
    /\ pc = "coin_read"
    /\ \E ok \in Outcomes :
         /\ Spend(ok)
         /\ IF ok
            THEN LET data == coin_volume_24h[vd.coin_volume_data[idx].coin]
                 IN /\ cur' = IF data = None
                              THEN [buy |-> 0, sell |-> 0]
                              ELSE [buy |-> UnwrapOr(UnwrapOr(data, 0).buy_volume, 0),
                                    sell |-> UnwrapOr(UnwrapOr(data, 0).sell_volume, 0)]
                    /\ pc' = "coin_upsert"
                    /\ UNCHANGED <<item, vd, idx, coins, stale, stmtFailed, hist>>
            ELSE Abort
    /\ UNCHANGED <<now, db, rpc, env, ticks>>

\* INSERT INTO coin_volume_24h ... ON CONFLICT (coin) DO UPDATE
CoinUpsert ==
    /\ pc = "coin_upsert"
    /\ \E ok \in Outcomes :
         /\ Spend(ok)
         /\ IF ok
            THEN LET record == vd.coin_volume_data[idx]
                     row == [buy_volume |-> Some(cur.buy + UnwrapOr(record.buy_volume, 0)),
                             sell_volume |-> Some(cur.sell + UnwrapOr(record.sell_volume, 0)),
                             inserted_at |-> now]
                 IN /\ coin_volume_24h' = [coin_volume_24h EXCEPT ![record.coin] = Some(row)]
                    /\ idx' = IF idx = Len(vd.coin_volume_data) THEN 1 ELSE idx + 1
                    /\ pc' = IF idx = Len(vd.coin_volume_data) THEN StageAfterCoins(vd)
                             ELSE "coin_read"
                    /\ UNCHANGED <<item, vd, cur, coins, stale, stmtFailed, hist>>
            ELSE /\ Abort
                 /\ UNCHANGED coin_volume_24h
    /\ UNCHANGED <<now, apt_data, coin_volume_buckets, rpc, env, ticks>>

\* ------------------------------------------------------------------------
\* TasmilProcessor::upsert_coin_volume_buckets
\* ------------------------------------------------------------------------
BucketRowsAt(table, coin, bucket_start) ==
    {b \in table : b.coin = coin /\ b.bucket_start = bucket_start}

\* SELECT * FROM coin_volume_buckets WHERE coin = $1 AND bucket_start = $2
BucketRead ==
    /\ pc = "bucket_read"
    /\ \E ok \in Outcomes :
         /\ Spend(ok)
         /\ IF ok
            THEN LET record == vd.coin_volume_buckets[idx]
                     data == BucketRowsAt(coin_volume_buckets, record.coin,
                                          record.bucket_start)
                 IN /\ cur' = IF data = {} THEN 0
                              ELSE UnwrapOr((CHOOSE b \in data : TRUE).volume, 0)
                    /\ pc' = "bucket_upsert"
                    /\ UNCHANGED <<item, vd, idx, coins, stale, stmtFailed, hist>>
            ELSE Abort
    /\ UNCHANGED <<now, db, rpc, env, ticks>>

\* A bucket upsert that writes the batch's volume over the stored one
BucketUpsertOverwriting ==
    /\ pc = "bucket_upsert"
    /\ \E ok \in Outcomes :
         /\ Spend(ok)
         /\ IF ok
            THEN LET record == vd.coin_volume_buckets[idx]
                     row == [coin |-> record.coin,
                             bucket_start |-> record.bucket_start,
                             bucket_end |-> record.bucket_end,
                             volume |-> Some(UnwrapOr(record.volume, 0)),
                             inserted_at |-> now]
                 IN /\ coin_volume_buckets' =
                          (coin_volume_buckets
                             \ BucketRowsAt(coin_volume_buckets, record.coin,
                                            record.bucket_start)) \cup {row}
                    /\ idx' = idx + 1
                    /\ pc' = IF idx = Len(vd.coin_volume_buckets) THEN "return"
                             ELSE "bucket_read"
                    /\ UNCHANGED <<item, vd, cur, coins, stale, stmtFailed, hist>>
            ELSE /\ Abort
                 /\ UNCHANGED coin_volume_buckets
    /\ UNCHANGED <<now, apt_data, coin_volume_24h, rpc, env, ticks>>

\* INSERT INTO coin_volume_buckets ... ON CONFLICT (coin, bucket_start)
\* DO UPDATE SET volume, bucket_end, inserted_at
BucketUpsert ==
    /\ pc = "bucket_upsert"
    /\ \E ok \in Outcomes :
         /\ Spend(ok)
         /\ IF ok
            THEN LET record == vd.coin_volume_buckets[idx]
                     row == [coin |-> record.coin,
                             bucket_start |-> record.bucket_start,
                             bucket_end |-> record.bucket_end,
                             volume |-> Some(cur + UnwrapOr(record.volume, 0)),
                             inserted_at |-> now]
                 IN /\ coin_volume_buckets' =
                          (coin_volume_buckets
                             \ BucketRowsAt(coin_volume_buckets, record.coin,
                                            record.bucket_start)) \cup {row}
                    /\ idx' = idx + 1
                    /\ pc' = IF idx = Len(vd.coin_volume_buckets) THEN "return"
                             ELSE "bucket_read"
                    /\ UNCHANGED <<item, vd, cur, coins, stale, stmtFailed, hist>>
            ELSE /\ Abort
                 /\ UNCHANGED coin_volume_buckets
    /\ UNCHANGED <<now, apt_data, coin_volume_24h, rpc, env, ticks>>

\* The notification is sent (a send error is only logged) and process
\* returns Ok
ProcessReturn ==
    /\ pc = "return"
    /\ stmtFailed' = stmtFailed
    /\ \E receiver_alive \in BOOLEAN :
         Return("Ok", IF receiver_alive THEN "delivered" ELSE "send_failed")
    /\ UNCHANGED <<now, db, rpc, faults, env, ticks>>

StartupTask ==
    \/ StartupGetConn
    \/ StartupResetAptData
    \/ StartupResetCoinVolumes
    \/ StartupResetBuckets

Processor ==
    \/ CleanupDeleteOldBuckets
    \/ CleanupDistinctCoins
    \/ CleanupLoadBuckets
    \/ CleanupDeleteExcess
    \/ LoadCurrentRecords
    \/ ResetAptData
    \/ ResetCoinVolumes
    \/ ResetBuckets
    \/ Calculate
    \/ GetCurrentVolumes
    \/ UpsertProtocol
    \/ AptosLoad
    \/ AptosUpsert
    \/ CoinRead
    \/ CoinUpsert
    \/ BucketRead
    \/ BucketUpsert
    \/ ProcessReturn

Next == Tick \/ StartBatch \/ StartupTask \/ Processor

Spec == Init /\ [][Next]_vars

\* ------------------------------------------------------------------------
\* The pure functions, applied on their own
\* ------------------------------------------------------------------------
\* Timestamps at, just before and half an hour after every full hour of a
\* day, around the Unix epoch and around the start of the clock
BucketTimestamps ==
    {base + k * HOUR + offset :
        base \in {0 - DAY, Now0}, k \in 0..MaxHours, offset \in {0 - 1, 0, HOUR \div 2}}

TokenTypes ==
    {CELLANA_APT_COIN_TYPE, CELLANA_USDC_COIN_TYPE, CELLANA_USDT_COIN_TYPE,
     THALA_APT_COIN_TYPE, THALA_USDC_COIN_TYPE, THALA_USDT_COIN_TYPE,
     IZUSDT_COIN_TYPE, IZUSDC_COIN_TYPE, WHUSDC_COIN_TYPE, WHUSDT_COIN_TYPE,
     IZWETH_COIN_TYPE, WHWETH_COIN_TYPE, UNKNOWN_COIN_TYPE, USDC_USDT_LP_TYPE}

\* Raw amounts whose quotient by 10^8 has at most DecimalPlaces decimals
RawAmounts == {k * Pow10(APT_DECIMALS - DecimalPlaces) : k \in 0..MaxUnits}

\* The smallest of them above zero
RawAmounts_Unit == Pow10(APT_DECIMALS - DecimalPlaces)

PureInit == InitWith({EmptyDB}, 0, "pure", FALSE, 0)

ApplyBucketRange ==
    /\ mode = "pure"
    /\ \E t \in BucketTimestamps :
         call' = [fn |-> "calculate_bucket_range", arg |-> <<t>>,
                  ret |-> calculate_bucket_range(t)]
    /\ UNCHANGED <<now, db, pc, locals, rpc, faults, budget, mode, concurrent, fresh,
                   ticks, stmtFailed, hist, orchestrator>>

ApplyNormalize ==
    /\ mode = "pure"
    /\ \E token_type \in TokenTypes : \E raw_amount \in RawAmounts :
         call' = [fn |-> "normalize_token_amount", arg |-> <<token_type, raw_amount>>,
                  ret |-> normalize_token_amount(token_type, raw_amount)]
    /\ UNCHANGED <<now, db, pc, locals, rpc, faults, budget, mode, concurrent, fresh,
                   ticks, stmtFailed, hist, orchestrator>>

\* SwapEventData as VolumeCalculator::process hands them to the bucket
\* calculator: a timestamp and the normalized coin volumes of the swap
SwapEventData(age, coin_volumes) ==
    [timestamp_seconds |-> Now0 - age, coin_volumes |-> coin_volumes]

CoinVolumeData(coin, volume) == [coin |-> coin, volume |-> volume]

SwapEvents ==
    {SwapEventData(1 * HOUR, << CoinVolumeData("APT", Dec(1, 0)), CoinVolumeData("USDC", Dec(5, 0)) >>),
     SwapEventData(HOUR + HOUR \div 2, << CoinVolumeData("USDC", Dec(3, 0)), CoinVolumeData("APT", 2) >>),
     SwapEventData(3 * HOUR, << CoinVolumeData("WETH", 7), CoinVolumeData("APT", Dec(2, 0)) >>),
     SwapEventData(5 * HOUR, << CoinVolumeData("USDT", Dec(4, 0)) >>),
     SwapEventData(WINDOW_HOURS * HOUR, << CoinVolumeData("USDC", Dec(6, 0)) >>),
     SwapEventData(WINDOW_HOURS * HOUR + 1, << CoinVolumeData("APT", Dec(9, 0)),
                                           CoinVolumeData("USDT", Dec(8, 0)) >>)}

SwapLists ==
    UNION {[1..n -> SwapEvents] : n \in 1..MaxSwaps}

ApplyGroupSwaps ==
    /\ mode = "pure"
    /\ \E swap_data \in SwapLists :
         call' = [fn |-> "group_swaps_into_buckets", arg |-> <<swap_data, Now0>>,
                  ret |-> group_swaps_into_buckets(swap_data, Now0)]
    /\ UNCHANGED <<now, db, pc, locals, rpc, faults, budget, mode, concurrent, fresh,
                   ticks, stmtFailed, hist, orchestrator>>

\* One call of extract_coin_volumes_from_cellana on a decoded swap: the
\* place where an amount is recorded under the coin of its token
ApplyExtractCoinVolumes ==
    /\ mode = "pure"
    /\ \E from_token \in TokenTypes : \E to_token \in TokenTypes :
       \E amount_in \in {RawAmounts_Unit, MaxUnits * RawAmounts_Unit} :
         LET swap_data == [from_token |-> from_token, to_token |-> to_token,
                           amount_in |-> amount_in, amount_out |-> 3 * RawAmounts_Unit]
         IN call' = [fn |-> "extract_coin_volumes_from_cellana", arg |-> <<swap_data>>,
                     ret |-> extract_coin_volumes_from_cellana(swap_data)]
    /\ UNCHANGED <<now, db, pc, locals, rpc, faults, budget, mode, concurrent, fresh,
                   ticks, stmtFailed, hist, orchestrator>>

PureNext ==
    ApplyBucketRange \/ ApplyNormalize \/ ApplyGroupSwaps \/ ApplyExtractCoinVolumes

PureSpec == PureInit /\ [][PureNext]_vars

\* ------------------------------------------------------------------------
\* The main loop of SwapProcessor::run_processor
\* ------------------------------------------------------------------------
program == <<now, db, pc, locals, rpc, faults, budget, mode, concurrent, fresh, ticks,
             stmtFailed, hist, call>>

LoopInit == InitWith({EmptyDB}, 0, "loop", FALSE, 0)

\* process sends a progress record; the channel is unbounded
NotificationSend ==
    /\ mode = "loop"
    /\ upstream = "open"
    /\ notifications < MaxNotifications
    /\ notifications' = notifications + 1
    /\ UNCHANGED <<program, upstream, buffer, loop_pc>>

\* The last step of the pipeline puts a processed batch into its output
\* channel of CHANNEL_SIZE places
PipelineOutput ==
    /\ mode = "loop"
    /\ upstream = "open"
    /\ buffer < CHANNEL_SIZE
    /\ buffer' = buffer + 1
    /\ UNCHANGED <<program, upstream, notifications, loop_pc>>

\* The steps of the pipeline end and drop the sending side
PipelineClose ==
    /\ mode = "loop"
    /\ upstream = "open"
    /\ upstream' = "closed"
    /\ UNCHANGED <<program, buffer, notifications, loop_pc>>

\* while let Ok(notification) = notification_receiver.try_recv()
LoopTryRecv ==
    /\ mode = "loop"
    /\ loop_pc = "try_recv"
    /\ IF notifications > 0
       THEN /\ notifications' = notifications - 1
            /\ UNCHANGED loop_pc
       ELSE /\ loop_pc' = "recv"
            /\ UNCHANGED notifications
    /\ UNCHANGED <<program, upstream, buffer>>

\* A receive that keeps waiting on a closed channel
LoopRecvWaiting ==
    /\ mode = "loop"
    /\ loop_pc = "recv"
    /\ buffer > 0
    /\ buffer' = buffer - 1
    /\ loop_pc' = "try_recv"
    /\ UNCHANGED <<program, upstream, notifications>>

\* match buffer_receiver.recv().await: Ok takes a processed batch and loops,
\* Err (the channel is closed) returns Ok(()); while the channel is open and
\* empty the loop waits
LoopRecv ==
    /\ mode = "loop"
    /\ loop_pc = "recv"
    /\ \/ /\ buffer > 0
          /\ buffer' = buffer - 1
          /\ loop_pc' = "try_recv"
       \/ /\ upstream = "closed"
          /\ loop_pc' = "returned"
          /\ UNCHANGED buffer
    /\ UNCHANGED <<program, upstream, notifications>>

LoopNext == NotificationSend \/ PipelineOutput \/ PipelineClose \/ LoopTryRecv \/ LoopRecv

\* The task of the main loop is scheduled as long as it can take a step
LoopSpec ==
    LoopInit /\ [][LoopNext]_vars /\ WF_vars(LoopTryRecv) /\ WF_vars(LoopRecv)

\* ------------------------------------------------------------------------
\* Properties
\* ------------------------------------------------------------------------
LastBatch == hist[Len(hist)]

\* process has returned Ok from the latest batch and no batch is in progress
BatchCompleted == pc = "idle" /\ hist # << >> /\ LastBatch.result = "Ok"

AptosEqualsSum ==
    \A field \in {"vol", "fee"} : \A c \in Coins :
        CountersOf(apt_data["aptos"])[field][c] = DappTotals(apt_data)[field][c]

\* C1: after every completed batch, each of the eight counters of the
\* 'aptos' row equals the sum of that counter over the cellana, thala,
\* sushiswap, liquidswap and hyperion rows (absent or null read as zero).
C1_AptosIsSumAfterBatch == BatchCompleted => AptosEqualsSum

\* The transactions of all batches process returned Ok from, oldest batch first
RECURSIVE DeliveredTxns(_)
DeliveredTxns(n) ==
    IF n = 0 THEN << >>
    ELSE DeliveredTxns(n - 1) \o (IF hist[n].result = "Ok" THEN hist[n].item ELSE << >>)

\* No statement failed in any batch so far and no batch raced the reset task
Undisturbed ==
    /\ ~concurrent
    /\ faults = 0
    /\ \A i \in 1..Len(hist) : hist[i].result = "Ok" /\ ~hist[i].failed

\* What the calculator derives from the delivered transactions that lie
\* within the 24 hours before the latest batch
WindowData ==
    LET InWindow(txn) ==
            UnwrapOr(txn.timestamp, 0) >= LastBatch.at - WINDOW_HOURS * HOUR
    IN VolumeCalculatorProcess(SelectSeq(DeliveredTxns(Len(hist)), InWindow), LastBatch.at)

RecordCounters(records, protocol) ==
    IF \E i \in 1..Len(records) : records[i].protocol_name = protocol
    THEN LET r == records[CHOOSE i \in 1..Len(records) :
                            records[i].protocol_name = protocol]
         IN [vol |-> [c \in Coins |-> UnwrapOr(r.vol[c], 0)],
             fee |-> [c \in Coins |-> UnwrapOr(r.fee[c], 0)]]
    ELSE [vol |-> ZeroByCoin, fee |-> ZeroByCoin]

CoinCounters(row_option) ==
    IF row_option = None THEN [buy |-> 0, sell |-> 0]
    ELSE [buy |-> UnwrapOr(UnwrapOr(row_option, 0).buy_volume, 0),
          sell |-> UnwrapOr(UnwrapOr(row_option, 0).sell_volume, 0)]

CoinRecordCounters(records, coin) ==
    IF \E r \in records : r.coin = coin
    THEN LET r == CHOOSE r \in records : r.coin = coin
         IN [buy |-> UnwrapOr(r.buy_volume, 0), sell |-> UnwrapOr(r.sell_volume, 0)]
    ELSE [buy |-> 0, sell |-> 0]

\* C2: the counters of apt_data and coin_volume_24h reflect only activity
\* within the most recent 24 hours, measured from the latest batch: on a
\* deployment that started with empty tables and met no failure, after a
\* completed batch every protocol's and every coin's counters are what the
\* delivered transactions of the last 24 hours add up to.
C2_CountersReflectLast24h ==
    (BatchCompleted /\ fresh /\ Undisturbed) =>
        /\ \A p \in DappNames :
             CountersOf(apt_data[p]) = RecordCounters(WindowData.apt_data, p)
        /\ \A c \in Coins :
             CoinCounters(coin_volume_24h[c])
                = CoinRecordCounters(WindowData.coin_volume_data, c)

BucketsOfCoin(coin) == {b \in coin_volume_buckets : b.coin = coin}

\* C3: after every completed batch, each coin has at most 12 bucket rows,
\* and every bucket row ends exactly 2 hours after it starts and starts at
\* minute 0 of an even hour of the GMT+7 wall clock.
C3_BucketRowsAfterBatch ==
    BatchCompleted =>
        /\ \A c \in Coins : Cardinality(BucketsOfCoin(c)) <= MAX_BUCKETS_PER_COIN
        /\ \A b \in coin_volume_buckets :
             /\ b.bucket_end = b.bucket_start + BUCKET_HOURS * HOUR
             /\ b.bucket_start % (BUCKET_HOURS * HOUR) = 0

AllCountersZero ==
    /\ \A p \in ProtocolNames :
         CountersOf(apt_data[p]) = [vol |-> ZeroByCoin, fee |-> ZeroByCoin]
    /\ \A c \in Coins : CoinCounters(coin_volume_24h[c]) = [buy |-> 0, sell |-> 0]

\* The VolumeData of the latest batch
LastBatchData == VolumeCalculatorProcess(LastBatch.item, LastBatch.at)

CountersEqualLastBatch ==
    /\ \A p \in DappNames :
         CountersOf(apt_data[p]) = RecordCounters(LastBatchData.apt_data, p)
    /\ \A c \in Coins :
         CoinCounters(coin_volume_24h[c])
            = CoinRecordCounters(LastBatchData.coin_volume_data, c)

\* C4: when the newest inserted_at of apt_data is older than now - 24h at
\* the start of a batch, then before any swap of the batch is applied all
\* counters of apt_data and coin_volume_24h are zero and coin_volume_buckets
\* is empty, and the swaps of the batch contribute as if the tables had been
\* empty (no batch racing the start-up reset).
C4_StaleWindowIsReset ==
    /\ (pc = "calculate" /\ stale /\ ~concurrent) =>
           (AllCountersZero /\ coin_volume_buckets = {})
    /\ (BatchCompleted /\ LastBatch.stale /\ ~concurrent) => CountersEqualLastBatch

\* The pool accumulators of the latest batch
LastBatchPools == ProcessTxns(EmptyAcc, LastBatch.item, 1, LastBatch.at).pools

RECURSIVE SumProtocols(_, _, _, _)
SumProtocols(pools, protocols, field, coin) ==
    IF protocols = {} THEN 0
    ELSE LET p == CHOOSE x \in protocols : TRUE
         IN ProtocolTotal(pools, p, field, coin)
            + SumProtocols(pools, protocols \ {p}, field, coin)

FirstBatchOnEmptyTables == BatchCompleted /\ fresh /\ Undisturbed /\ Len(hist) = 1

\* C5: every swap adds its net input to the sell volume of the input coin
\* and its full output to the buy volume of the output coin in
\* coin_volume_24h, and changes no other buy or sell volume: after a first
\* batch on empty tables each coin's buy and sell volume is the sum of what
\* the batch's swaps bought and sold of it; the Cellana swap of 100000000
\* octas APT for 500000000 units USDC at 30 bps gives APT sell 0.997,
\* USDC buy 500, APT buy 0 and USDC sell 0.
C5_CoinBuySellPerSwap ==
    FirstBatchOnEmptyTables =>
        /\ \A c \in Coins :
             CoinCounters(coin_volume_24h[c])
                = [buy |-> SumProtocols(LastBatchPools, DappNames, "buy", c),
                   sell |-> SumProtocols(LastBatchPools, DappNames, "sell", c)]
        /\ (LastBatch.item = Stamp(<< Txn(CellanaAptUsdc, 1 * HOUR) >>, LastBatch.at)) =>
               /\ CoinCounters(coin_volume_24h["APT"]) = [buy |-> 0, sell |-> Dec(997, 3)]
               /\ CoinCounters(coin_volume_24h["USDC"]) = [buy |-> Dec(500, 0), sell |-> 0]

\* The bucket rows without their inserted_at
BucketContents ==
    {[coin |-> b.coin, bucket_start |-> b.bucket_start, bucket_end |-> b.bucket_end,
      volume |-> UnwrapOr(b.volume, 0)] : b \in coin_volume_buckets}

RecordContents(records) ==
    {[coin |-> records[i].coin, bucket_start |-> records[i].bucket_start,
      bucket_end |-> records[i].bucket_end,
      volume |-> UnwrapOr(records[i].volume, 0)] : i \in 1..Len(records)}

\* The latest batch is the redelivery of a batch whose processing failed
RetriedBatchCompleted ==
    /\ BatchCompleted
    /\ ~concurrent
    /\ Len(hist) = 2
    /\ hist[1].result = "Err"
    /\ hist[2].item = hist[1].item
    /\ hist[2].at = hist[1].at

\* C6: a batch whose processing failed part-way can be handed over again:
\* once the retry completes, the counters and buckets are what a single
\* application of the batch gives (tables empty before the first attempt).
C6_RetryAppliesOnce ==
    (RetriedBatchCompleted /\ fresh) =>
        /\ CountersEqualLastBatch
        /\ AptosEqualsSum
        /\ BucketContents = RecordContents(LastBatchData.coin_volume_buckets)

\* C7: in every interleaving of the reset task started by
\* TasmilProcessor::new with the first batch, once both have finished (no
\* storage error) each counter equals exactly the first batch's delta: no
\* value from before the restart survives and no contribution of the first
\* batch is erased.
C7_CleanWindowAfterStartup ==
    (rpc = "done" /\ BatchCompleted /\ Len(hist) = 1 /\ faults = 0) =>
        /\ CountersEqualLastBatch
        /\ CountersOf(apt_data["aptos"]) = DappTotals(apt_data)
        /\ BucketContents = RecordContents(LastBatchData.coin_volume_buckets)

\* C8: every storage error that occurs while a batch is processed makes the
\* batch fail: process never returns Ok for a batch in which a database
\* statement failed.
C8_NoOkAfterFailedStatement == BatchCompleted => ~LastBatch.failed

\* All transactions of a batch are older than 24 hours at clock reading at
AllOlderThan24h(batch, at) ==
    \A i \in 1..Len(batch) :
        /\ batch[i].timestamp # None
        /\ UnwrapOr(batch[i].timestamp, 0) < at - WINDOW_HOURS * HOUR

AptCounters == [p \in ProtocolNames |-> CountersOf(apt_data[p])]

AfterCalculate ==
    pc \in {"get_current_volumes", "upsert_protocol", "aptos_load", "aptos_upsert",
            "coin_read", "coin_upsert", "bucket_read", "bucket_upsert", "return"}

\* C9: a batch all of whose transactions are older than now - 24h produces
\* empty protocol, coin and bucket deltas, and no step of its processing
\* other than the reset of rolling-window maintenance changes a counter of
\* apt_data.
C9_OldBatchLeavesCounters ==
    /\ [](AfterCalculate /\ AllOlderThan24h(item, now) =>
            /\ vd.apt_data = << >>
            /\ vd.coin_volume_data = << >>
            /\ vd.coin_volume_buckets = << >>)
    /\ [][(pc \notin {"idle", "reset_apt_data"} /\ AllOlderThan24h(item, now)
             /\ rpc' = rpc)
           => AptCounters' = AptCounters]_vars

\* An all-old, non-empty batch has been processed on top of counters that
\* are not zero
C9_Witness ==
    /\ BatchCompleted
    /\ LastBatch.item # << >>
    /\ AllOlderThan24h(LastBatch.item, LastBatch.at)
    /\ ~LastBatch.stale
    /\ \E p \in DappNames : \E c \in Coins : AptCounters[p].vol[c] > 0

Quiescent == pc = "idle" /\ rpc = "done"

\* C11: at every quiescent point the 'aptos' row equals the sum of the five
\* dapp rows, however the statements of the reset task spawned at start-up
\* interleave with those of the batches processed meanwhile (no storage
\* error).
C11_AptosIsSumWhenQuiescent == (Quiescent /\ faults = 0) => AptosEqualsSum

\* The transactions of a batch that carry a timestamp
WithTimestamps(batch) == SelectSeq(batch, LAMBDA txn : txn.timestamp # None)

HasTimestampless(batch) == \E i \in 1..Len(batch) : batch[i].timestamp = None

\* C12: a transaction without timestamp is dropped and the rest of its batch
\* is processed: the batch does not stop the processor, and the deltas
\* computed for it are those of the batch without that transaction.
C12_TimestamplessTxnDropped ==
    HasTimestampless(item) =>
        /\ pc # "panicked"
        /\ AfterCalculate =>
             \E order \in Orderings(VolumeCalculatorProcess(WithTimestamps(item), now).coin_volume_data) :
                vd = [VolumeCalculatorProcess(WithTimestamps(item), now)
                        EXCEPT !.coin_volume_data = order]

\* An x/y swap event whose x-side and y-side _in amounts are both non-zero
BothSidesIn(event) ==
    /\ event.type \in {"sushiswap", "liquidswap"}
    /\ event.sd.x_in > 0
    /\ event.sd.y_in > 0

OnlyBothSidesIn(batch) ==
    /\ batch # << >>
    /\ \A i \in 1..Len(batch) :
         /\ batch[i].timestamp # None
         /\ batch[i].events # << >>
         /\ \A j \in 1..Len(batch[i].events) : BothSidesIn(batch[i].events[j])

\* C13: a SushiSwap or LiquidSwap event with both _in amounts non-zero is
\* rejected by the extractor and contributes to no protocol, coin or bucket
\* aggregate: a batch that holds only such events produces empty deltas.
C13_BothInContributesNothing ==
    (AfterCalculate /\ OnlyBothSidesIn(item)) =>
        /\ vd.apt_data = << >>
        /\ vd.coin_volume_data = << >>
        /\ vd.coin_volume_buckets = << >>

\* The deltas of the batch in progress are the given ones, the coin deltas
\* in any order
DeltasAre(data) ==
    \E order \in Orderings(data.coin_volume_data) :
        vd = [data EXCEPT !.coin_volume_data = order]

\* An event the dispatcher has no extractor for, or whose payload is not
\* JSON or lacks a field its extractor requires
Rejected(event) ==
    \/ event.type \notin DappNames
    \/ ~event.json_ok
    \/ event.missing \cap RequiredFields(event.type) # {}
    \/ /\ event.type = "thala"
       /\ \/ Len(event.sd.metadata) < 2
          \/ <<event.sd.idx_in, event.sd.idx_out>> \notin {<<0, 1>>, <<1, 0>>}

EventsOf(batch) == UNION {{batch[i].events[j] : j \in 1..Len(batch[i].events)} : i \in 1..Len(batch)}

WithoutRejected(batch) ==
    [i \in 1..Len(batch) |->
        [batch[i] EXCEPT !.events = SelectSeq(@, LAMBDA event : ~Rejected(event))]]

\* C14: an event of unknown type, with an unparsable payload or with a
\* required field missing never stops the batch and changes no accumulator:
\* the three deltas of the batch are those of the batch without such events.
C14_RejectedEventsSkipped ==
    /\ (pc = "panicked") => HasTimestampless(item)
    /\ AfterCalculate => DeltasAre(VolumeCalculatorProcess(WithoutRejected(item), now))

\* A batch that mixes an event of unknown type, an unparsable one and one that
\* lacks a required field with well-formed swaps has produced its deltas
C14_Witness ==
    /\ AfterCalculate
    /\ \E event \in EventsOf(item) : event.type \notin DappNames
    /\ \E event \in EventsOf(item) : event.type \in DappNames /\ ~event.json_ok
    /\ \E event \in EventsOf(item) :
         event.type \in DappNames /\ event.json_ok /\ event.missing # {}
    /\ \E event \in EventsOf(item) : ~Rejected(event)
    /\ vd.apt_data # << >>
    /\ vd.coin_volume_buckets # << >>

\* The 'aptos' row of a table holds the sums of its five dapp rows
AptosIsSumIn(table) ==
    \A field \in {"vol", "fee"} : \A c \in Coins :
        CountersOf(table["aptos"])[field][c] = DappTotals(table)[field][c]

\* C15: the 'aptos' row is self-healing: when a batch left it different from
\* the sum of the five dapp rows, the next batch that completes (without a
\* storage error of its own, whatever it contains) leaves it equal to that
\* sum.
C15_AptosRowSelfHealing ==
    (/\ BatchCompleted
     /\ ~concurrent
     /\ Len(hist) >= 2
     /\ ~AptosIsSumIn(hist[Len(hist) - 1].apt_data)
     /\ ~LastBatch.failed)
    => AptosEqualsSum

\* The columns of apt_data a dapp has no counter for
UnsupportedColumns(protocol) ==
    IF protocol \in {"cellana", "thala", "hyperion"}
    THEN {<<"vol", "WETH">>, <<"fee", "WETH">>}
    ELSE {<<"fee", c>> : c \in Coins}

\* C16: in the apt_data row the program persists for a dapp, every column the
\* dapp does not support is null, after any sequence of batches and resets
\* (tables that were empty when the program started).
C16_UnsupportedColumnsNull ==
    fresh =>
        \A p \in DappNames : \A row \in apt_data[p] :
            \A column \in UnsupportedColumns(p) : row[column[1]][column[2]] = None

\* C17: calculate_bucket_range(t) is the 2-hour slot of the GMT+7 wall clock
\* that holds t: start <= local(t) < end, end = start + 2h, start is minute 0
\* of hour 2 * (h \div 2) of the local date of t, end is 00:00 of the next
\* local date when that hour is 22, the second before end is in the bucket
\* that ends at end and end itself is in the next one.
C17_BucketRangeHoldsTimestamp ==
    call.fn = "calculate_bucket_range" =>
        LET local == call.arg[1] + GMT7_OFFSET
            start == call.ret[1]
            end == call.ret[2]
            date == (local \div DAY) * DAY
            h == (local % DAY) \div HOUR
        IN /\ start <= local
           /\ local < end
           /\ end = start + BUCKET_HOURS * HOUR
           /\ start = date + 2 * (h \div 2) * HOUR
           /\ (2 * (h \div 2) = 22) => (end = date + DAY)
           /\ calculate_bucket_range(end - 1 - GMT7_OFFSET)[2] = end
           /\ calculate_bucket_range(end - GMT7_OFFSET)[1] = end

\* The function has been applied to the last second of a local day
C17_Witness ==
    /\ call.fn = "calculate_bucket_range"
    /\ (call.arg[1] + GMT7_OFFSET) % DAY = DAY - 1
    /\ call.ret[2] = call.arg[1] + GMT7_OFFSET + 1
    /\ call.ret[1] % DAY = 22 * HOUR

\* C18: normalize_token_amount divides by 10^8 for APT and by 10^6 for USDC,
\* USDT, WETH and their wrapped variants, so that the result times
\* 10^decimals is the raw amount again, and returns the amount of an
\* unrecognised token unchanged.
C18_NormalizeRoundTrip ==
    call.fn = "normalize_token_amount" =>
        LET token_type == call.arg[1]
            raw_amount == call.arg[2]
        IN IF token_type \in {CELLANA_APT_COIN_TYPE, THALA_APT_COIN_TYPE}
           THEN call.ret * Pow10(8 - DecimalPlaces) = raw_amount
           ELSE IF token_type = UNKNOWN_COIN_TYPE
           THEN call.ret = Dec(raw_amount, 0)
           ELSE call.ret * Pow10(6 - DecimalPlaces) = raw_amount

\* The function has been applied to a non-zero amount of APT
C18_Witness ==
    /\ call.fn = "normalize_token_amount"
    /\ call.arg[1] = THALA_APT_COIN_TYPE
    /\ call.arg[2] = MaxUnits * Pow10(APT_DECIMALS - DecimalPlaces)
    /\ call.ret = MaxUnits

\* C19: no step deletes a row of apt_data or of coin_volume_24h: a
\* protocol_name or coin that has a row before a step has one after it, the
\* start-up reset and the staleness reset included.
C19_RowsNeverDeleted ==
    [][/\ \A p \in ProtocolNames : apt_data[p] # None => apt_data'[p] # None
       /\ \A c \in Coins : coin_volume_24h[c] # None => coin_volume_24h'[c] # None]_vars

\* The start-up reset has run over tables that held rows with counters, and
\* the rows are still there, zeroed
C19_Witness ==
    /\ ~fresh
    /\ rpc = "done"
    /\ \E p \in ProtocolNames : apt_data[p] # None
    /\ \E c \in Coins : coin_volume_24h[c] # None
    /\ AllCountersZero

\* A batch whose events are all well-formed LiquidSwap swaps between whUSDC
\* and izUSDC
OnlyWhusdcIzusdc(batch) ==
    /\ batch # << >>
    /\ \A i \in 1..Len(batch) :
         /\ batch[i].timestamp # None
         /\ batch[i].events # << >>
         /\ \A j \in 1..Len(batch[i].events) :
              LET event == batch[i].events[j]
              IN /\ event.type = "liquidswap"
                 /\ ~Rejected(event)
                 /\ {event.sd.token_x, event.sd.token_y}
                      = {WHUSDC_COIN_TYPE, IZUSDC_COIN_TYPE}

WhusdcIzusdcOnEmptyTables ==
    FirstBatchOnEmptyTables /\ OnlyWhusdcIzusdc(LastBatch.item)

\* C20: a LiquidSwap swap between whUSDC and izUSDC contributes only under
\* the canonical coin USDC: after a first batch of such swaps on empty tables
\* no coin_volume_24h row and no coin_volume_buckets row exists for another
\* coin, and no counter of a dapp row other than the usdc volume of
\* liquidswap is different from zero.
C20_WrappedUsdcIsUsdc ==
    WhusdcIzusdcOnEmptyTables =>
        /\ \A c \in Coins \ {"USDC"} : coin_volume_24h[c] = None
        /\ \A b \in coin_volume_buckets : b.coin = "USDC"
        /\ \A p \in DappNames : \A field \in {"vol", "fee"} : \A c \in Coins :
             <<p, field, c>> # <<"liquidswap", "vol", "USDC">>
                => CountersOf(apt_data[p])[field][c] = 0

\* Such a batch has completed and left a USDC coin row, a USDC bucket and a
\* usdc volume of liquidswap
C20_Witness ==
    /\ WhusdcIzusdcOnEmptyTables
    /\ coin_volume_24h["USDC"] # None
    /\ \E b \in coin_volume_buckets : b.coin = "USDC" /\ UnwrapOr(b.volume, 0) > 0
    /\ CountersOf(apt_data["liquidswap"]).vol["USDC"] > 0

\* C21: the progress record of a batch is sent only after every statement of
\* rolling-window maintenance and of the upserts of that batch has
\* succeeded, and a send that fails because the receiver is gone leaves the
\* batch's result Ok.
C21_ProgressSentAfterSuccess ==
    \A i \in 1..Len(hist) :
        /\ hist[i].sent # "none" => (hist[i].result = "Ok" /\ ~hist[i].failed)
        /\ hist[i].sent = "send_failed" => hist[i].result = "Ok"

\* C22: the main loop returns Ok once the output channel of the pipeline is
\* closed, and does not return while the channel is open.
C22_LoopEndsWhenChannelCloses ==
    /\ [](loop_pc = "returned" => upstream = "closed")
    /\ (upstream = "closed") ~> (loop_pc = "returned")

\* The loop has returned on the closed channel, with nothing left queued
C22_Witness ==
    /\ loop_pc = "returned"
    /\ upstream = "closed"
    /\ buffer = 0
    /\ notifications = 0

\* The batch in progress is one transaction with one well-formed swap event
\* of the given protocols, and the calculator produced a protocol delta
SingleSwapOf(protocols) ==
    /\ AfterCalculate
    /\ Len(item) = 1
    /\ Len(item[1].events) = 1
    /\ item[1].events[1].type \in protocols
    /\ ~Rejected(item[1].events[1])
    /\ Len(vd.apt_data) = 1

\* C23: for a Thala or Hyperion swap the fee is protocol_fee_raw /
\* 10^decimals(input coin) and goes to the input coin's fee, the input coin's
\* volume grows by the normalized input minus that fee and the output coin's
\* volume by the full normalized output.
C23_AbsoluteFeeNetOfVolume ==
    SingleSwapOf({"thala", "hyperion"}) =>
        LET sd == UnwrapOr(extract_swap_data(item[1].events[1]), 0)
            record == vd.apt_data[1]
            from == UnwrapOr(token_type_to_coin(sd.from_token), "APT")
            to == UnwrapOr(token_type_to_coin(sd.to_token), "APT")
            fee_amount == normalize_token_amount(sd.from_token, sd.protocol_fee_amount)
            gross == normalize_token_amount(sd.from_token, sd.amount_in)
        IN /\ UnwrapOr(record.fee[from], 0) = fee_amount
           /\ UnwrapOr(record.vol[from], 0) = gross - fee_amount
           /\ UnwrapOr(record.vol[to], 0) = normalize_token_amount(sd.to_token, sd.amount_out)
           /\ UnwrapOr(record.vol[from], 0) + UnwrapOr(record.fee[from], 0) = gross

\* The LiquidityPool write-resources at the pool address of an event, among
\* the changes of its transaction
PoolResources(event) ==
    IF event.changes = None THEN {}
    ELSE LET changes == UnwrapOr(event.changes, << >>)
         IN {changes[i] : i \in {j \in 1..Len(changes) :
                                   /\ changes[j].address = event.sd.pool
                                   /\ changes[j].liquidity_pool}}

\* The fee rate of a Cellana swap as the pool resource states it
StatedFeeBps(event) ==
    IF \E resource \in PoolResources(event) : resource.swap_fee_bps # None
    THEN UnwrapOr((CHOOSE resource \in PoolResources(event) :
                       resource.swap_fee_bps # None).swap_fee_bps, 0)
    ELSE IF \E resource \in PoolResources(event) : resource.fee_rate # None
    THEN UnwrapOr((CHOOSE resource \in PoolResources(event) :
                       resource.fee_rate # None).fee_rate, 0)
    ELSE 30

\* C24: for a Cellana swap the fee is amount_in_normalized * fee_bps / 10000
\* with fee_bps the swap_fee_bps, otherwise the fee_rate, of the pool's
\* LiquidityPool write-resource in the transaction and 30 without one; the
\* fee goes to the input coin's fee and the rest of the input to its volume.
C24_CellanaFeeFromPoolResource ==
    SingleSwapOf({"cellana"}) =>
        LET event == item[1].events[1]
            record == vd.apt_data[1]
            from == UnwrapOr(token_type_to_coin(event.sd.from_token), "APT")
            gross == normalize_token_amount(event.sd.from_token, event.sd.amount_in)
            fee_amount == (gross * StatedFeeBps(event)) \div 10000
        IN /\ UnwrapOr(record.fee[from], 0) = fee_amount
           /\ UnwrapOr(record.vol[from], 0) = gross - fee_amount

\* A Cellana swap whose pool resource holds a fee_rate of 10 and no
\* swap_fee_bps has been accumulated
C24_Witness ==
    /\ SingleSwapOf({"cellana"})
    /\ StatedFeeBps(item[1].events[1]) = 10
    /\ UnwrapOr(vd.apt_data[1].fee["APT"], 0) = 1
    /\ UnwrapOr(vd.apt_data[1].vol["APT"], 0) = 999

\* The pool accumulators of the batch in progress
BatchPools == ProcessTxns(EmptyAcc, item, 1, now).pools

CoinDeltaRecords == {vd.coin_volume_data[i] : i \in 1..Len(vd.coin_volume_data)}

\* C25: the coin_volume_24h delta of a batch is derived from the per-pool
\* columns: for every coin the buy delta is the sum of the coin's buy volume
\* over all pools of all protocols and the sell delta the sum of its sell
\* volume, so a swap that updates no pool entry contributes nothing.
C25_CoinDeltaFromPools ==
    AfterCalculate =>
        \A c \in Coins :
            CoinRecordCounters(CoinDeltaRecords, c)
                = [buy |-> SumProtocols(BatchPools, DappNames, "buy", c),
                   sell |-> SumProtocols(BatchPools, DappNames, "sell", c)]

\* The upsert of a protocol record of the batch in progress has been
\* applied: the row is stamped with the clock and holds the record on top of
\* what the previous batch left, or on top of zero after a reset
ProtocolUpserted(record) ==
    \E row \in apt_data[record.protocol_name] :
        /\ row.inserted_at = now
        /\ \A field \in {"vol", "fee"} : \A c \in Coins :
             LET added == UnwrapOr(row[field][c], 0) - UnwrapOr(record[field][c], 0)
             IN IF hist = << >> THEN added >= 0
                ELSE added \in {0, CountersOf(LastBatch.apt_data[record.protocol_name])[field][c]}

\* C26: within a batch the 'aptos' row is recomputed only after the upsert
\* of every protocol record of the batch has succeeded: the recomputation is
\* reached with all of them applied, it is the only step of the batch besides
\* the staleness reset that writes the 'aptos' row, and a failed protocol
\* upsert ends the batch with Err and the 'aptos' row as it was.
C26_AptosAfterProtocolUpserts ==
    /\ []((pc \in {"aptos_load", "aptos_upsert"} /\ ~concurrent) =>
            \A i \in 1..Len(vd.apt_data) : ProtocolUpserted(vd.apt_data[i]))
    /\ [][/\ (apt_data'["aptos"] # apt_data["aptos"] /\ rpc' = rpc
                /\ pc # "reset_apt_data") => pc = "aptos_upsert"
          /\ (pc \in {"get_current_volumes", "upsert_protocol"} /\ pc' = "idle") =>
                /\ hist'[Len(hist')].result = "Err"
                /\ apt_data'["aptos"] = apt_data["aptos"]]_vars

\* The upsert of the second protocol record of a first batch on empty tables
\* failed: the first protocol's row is written, the second's and the 'aptos'
\* row are not
C26_Witness ==
    /\ fresh
    /\ pc = "idle"
    /\ Len(hist) = 1
    /\ hist[1].result = "Err"
    /\ apt_data["thala"] # None
    /\ apt_data["sushiswap"] = None
    /\ apt_data["aptos"] = None

MaintenanceStages ==
    {"load_records", "reset_apt_data", "reset_coin_volumes", "reset_buckets",
     "cleanup_load_buckets", "cleanup_delete_old", "cleanup_distinct_coins",
     "cleanup_delete_excess"}

UpsertStages ==
    {"get_current_volumes", "upsert_protocol", "coin_read", "coin_upsert",
     "bucket_read", "bucket_upsert"}

\* C27: within a batch the writes come in the order rolling-window
\* maintenance, then the per-protocol, per-coin and per-bucket upserts, then
\* the 'aptos' recomputation as the last write: no maintenance stage follows
\* an upsert or the recomputation, and after the recomputation the batch
\* goes to its return without a further upsert.
C27_AptosRecomputedLast ==
    [][/\ (pc \in UpsertStages \cup {"aptos_load", "aptos_upsert"}) =>
              pc' \notin MaintenanceStages
       /\ (pc \in {"aptos_load", "aptos_upsert"}) =>
              pc' \notin UpsertStages]_vars

\* The instant at which a bucket row's bucket ended, on the clock of `now`
BucketEndInstant(b) == b.bucket_end - GMT7_OFFSET

\* C28: after the maintenance of a non-stale batch no bucket
\* row remains whose bucket ended before cutoff = now - 24h, bucket_end (a
\* GMT+7 wall-clock time) and the cutoff read as instants on the same clock;
\* and the age eviction removes no row whose bucket ended at or after the
\* cutoff.
C28_ExpiredBucketsEvicted ==
    /\ []((pc = "calculate" /\ ~stale) =>
            \A b \in coin_volume_buckets : BucketEndInstant(b) >= CutoffTime)
    /\ [][(pc = "cleanup_delete_old" /\ rpc' = rpc) =>
            \A b \in coin_volume_buckets :
                BucketEndInstant(b) >= CutoffTime => b \in coin_volume_buckets']_vars

\* C29: the cap of cleanup_old_buckets. When the coin being capped has more
\* than twelve rows and the DELETE is executed, exactly twelve of its rows
\* remain, unchanged, every deleted row has a smaller bucket_start than every
\* surviving one, and the rows of the other coins are untouched; a coin with
\* twelve rows or fewer goes through the cap without losing a row.
C29_CapKeepsTwelveNewest ==
    [][/\ (pc = "cleanup_delete_excess" /\ pc' # pc /\ faults' = faults) =>
            LET mine == {b \in coin_volume_buckets : b.coin = coins[idx]}
                kept == {b \in coin_volume_buckets' : b.coin = coins[idx]}
            IN /\ Cardinality(mine) > MAX_BUCKETS_PER_COIN
               /\ Cardinality(kept) = MAX_BUCKETS_PER_COIN
               /\ kept \subseteq mine
               /\ \A k \in kept : \A d \in mine \ kept : d.bucket_start < k.bucket_start
               /\ coin_volume_buckets' \ kept = coin_volume_buckets \ mine
       /\ (pc = "cleanup_load_buckets" /\ pc' \notin {pc, "cleanup_delete_excess"}
             /\ faults' = faults /\ rpc' = rpc) =>
            /\ Cardinality({b \in coin_volume_buckets : b.coin = coins[idx]})
                  <= MAX_BUCKETS_PER_COIN
            /\ coin_volume_buckets' = coin_volume_buckets]_vars

\* The cap has brought the first coin from thirteen rows to twelve and the
\* second coin, not yet capped, still has its thirteen
C29_Witness ==
    /\ pc = "cleanup_load_buckets"
    /\ idx = 2
    /\ Cardinality({b \in coin_volume_buckets : b.coin = coins[1]}) = MAX_BUCKETS_PER_COIN
    /\ Cardinality({b \in coin_volume_buckets : b.coin = coins[2]}) = MAX_BUCKETS_PER_COIN + 1

RECURSIVE SeqSum(_)
SeqSum(s) == IF s = << >> THEN 0 ELSE Head(s) + SeqSum(Tail(s))

\* The deltas VolumeCalculator::process produced for batches 1..n
RECURSIVE BatchDeltas(_)
BatchDeltas(n) ==
    IF n = 0 THEN << >>
    ELSE Append(BatchDeltas(n - 1), VolumeCalculatorProcess(hist[n].item, hist[n].at))

ProtocolDeltaSum(deltas, p, field, c) ==
    SeqSum([i \in 1..Len(deltas) |->
        SeqSum([j \in 1..Len(deltas[i].apt_data) |->
              IF deltas[i].apt_data[j].protocol_name = p
              THEN UnwrapOr(deltas[i].apt_data[j][field][c], 0) ELSE 0])])

CoinDeltaSum(deltas, c) ==
    [buy |-> SeqSum([i \in 1..Len(deltas) |->
                CoinRecordCounters(deltas[i].coin_volume_data, c).buy]),
     sell |-> SeqSum([i \in 1..Len(deltas) |->
                CoinRecordCounters(deltas[i].coin_volume_data, c).sell])]

BucketDeltaSum(deltas, coin, bucket_start) ==
    SeqSum([i \in 1..Len(deltas) |->
        SeqSum([j \in 1..Len(deltas[i].coin_volume_buckets) |->
              IF /\ deltas[i].coin_volume_buckets[j].coin = coin
                 /\ deltas[i].coin_volume_buckets[j].bucket_start = bucket_start
              THEN UnwrapOr(deltas[i].coin_volume_buckets[j].volume, 0) ELSE 0])])

\* The (coin, bucket_start, bucket_end) of the bucket deltas of the first n
\* batches
DeltaBuckets(deltas, n) ==
    UNION {{[coin |-> deltas[i].coin_volume_buckets[j].coin,
             bucket_start |-> deltas[i].coin_volume_buckets[j].bucket_start,
             bucket_end |-> deltas[i].coin_volume_buckets[j].bucket_end] :
               j \in 1..Len(deltas[i].coin_volume_buckets)} : i \in 1..n}

\* Batches processed one after the other on tables empty at start-up, all
\* statements executed, no staleness reset and nothing for the maintenance
\* of a batch to evict among the buckets written before it
NoResetOrEviction ==
    /\ fresh
    /\ Undisturbed
    /\ \A i \in 1..Len(hist) : ~hist[i].stale
    /\ LET deltas == BatchDeltas(Len(hist))
       IN \A i \in 1..Len(hist) :
            LET earlier == DeltaBuckets(deltas, i - 1)
            IN \A k \in earlier :
                 /\ ~(k.bucket_end < hist[i].at - WINDOW_HOURS * HOUR)
                 /\ Cardinality({m \in earlier : m.coin = k.coin})
                       <= MAX_BUCKETS_PER_COIN

\* C30: upserts accumulate. After a sequence of batches with no reset or
\* eviction in between, each counter of a concrete protocol's apt_data row
\* is the sum of that protocol's per-batch deltas (absent row, null column
\* read as zero), each coin_volume_24h buy and sell value is the sum of the
\* coin's per-batch deltas, and each (coin, bucket_start) bucket volume is
\* the sum of its per-batch deltas.
C30_UpsertsAccumulate ==
    (pc = "idle" /\ NoResetOrEviction) =>
        LET deltas == BatchDeltas(Len(hist))
        IN /\ \A p \in DappNames : \A field \in {"vol", "fee"} : \A c \in Coins :
                 CountersOf(apt_data[p])[field][c] = ProtocolDeltaSum(deltas, p, field, c)
           /\ \A c \in Coins : CoinCounters(coin_volume_24h[c]) = CoinDeltaSum(deltas, c)
           /\ \A k \in DeltaBuckets(deltas, Len(hist)) :
                 \E b \in BucketRowsAt(coin_volume_buckets, k.coin, k.bucket_start) :
                     UnwrapOr(b.volume, 0) = BucketDeltaSum(deltas, k.coin, k.bucket_start)
           /\ \A b \in coin_volume_buckets :
                 UnwrapOr(b.volume, 0) = BucketDeltaSum(deltas, b.coin, b.bucket_start)

\* Two batches have been accumulated into the same protocol row, the same
\* coin row and the same bucket row
C30_Witness ==
    /\ pc = "idle"
    /\ NoResetOrEviction
    /\ Len(hist) = 2
    /\ LET deltas == BatchDeltas(2)
       IN /\ \E p \in DappNames : \E c \in Coins :
                /\ \A i \in 1..2 : \E j \in 1..Len(deltas[i].apt_data) :
                      /\ deltas[i].apt_data[j].protocol_name = p
                      /\ UnwrapOr(deltas[i].apt_data[j].vol[c], 0) > 0
                /\ \A i \in 1..2 : CoinRecordCounters(deltas[i].coin_volume_data, c).buy > 0
          /\ \E b \in coin_volume_buckets :
                /\ UnwrapOr(b.volume, 0) = BucketDeltaSum(deltas, b.coin, b.bucket_start)
                /\ \A i \in 1..2 : \E j \in 1..Len(deltas[i].coin_volume_buckets) :
                      /\ deltas[i].coin_volume_buckets[j].coin = b.coin
                      /\ deltas[i].coin_volume_buckets[j].bucket_start = b.bucket_start

\* The coin volumes of swap_data that lie within 24h of current_timestamp,
\* as (coin, bucket_start, volume)
WindowContributions(swap_data, current_timestamp) ==
    {[i |-> i, j |-> j,
      coin |-> swap_data[i].coin_volumes[j].coin,
      bucket_start |-> calculate_bucket_range(swap_data[i].timestamp_seconds)[1],
      volume |-> swap_data[i].coin_volumes[j].volume] :
        <<i, j>> \in {<<i, j>> \in (1..Len(swap_data)) \X (1..2) :
            /\ j <= Len(swap_data[i].coin_volumes)
            /\ swap_data[i].timestamp_seconds >=
                  current_timestamp - WINDOW_HOURS * HOUR}}

RECURSIVE SetSum(_)
SetSum(contributions) ==
    IF contributions = {} THEN 0
    ELSE LET x == CHOOSE x \in contributions : TRUE
         IN x.volume + SetSum(contributions \ {x})

\* C31: group_swaps_into_buckets returns exactly one record per distinct
\* (coin, bucket_start) among the coin volumes of the swaps within 24h of
\* current_timestamp, with the sum of those coin volumes as its volume; the
\* records are sorted by coin and then by bucket_start, and swaps older than
\* 24h contribute nothing.
C31_BucketsGroupedAndSorted ==
    call.fn = "group_swaps_into_buckets" =>
        LET records == call.ret
            contributions == WindowContributions(call.arg[1], call.arg[2])
        IN /\ \A x \in contributions :
                 \E n \in 1..Len(records) :
                     records[n].coin = x.coin /\ records[n].bucket_start = x.bucket_start
           /\ \A n \in 1..Len(records) :
                 LET mine == {x \in contributions :
                                 /\ x.coin = records[n].coin
                                 /\ x.bucket_start = records[n].bucket_start}
                 IN /\ mine # {}
                    /\ records[n].volume = Some(SetSum(mine))
           /\ \A m, n \in 1..Len(records) :
                 m < n =>
                    \/ CoinOrder(records[m].coin) < CoinOrder(records[n].coin)
                    \/ /\ records[m].coin = records[n].coin
                       /\ records[m].bucket_start < records[n].bucket_start

\* Two swaps of one bucket that share a coin and a swap older than 24h were
\* grouped into the records of two coins
C31_Witness ==
    /\ call.fn = "group_swaps_into_buckets"
    /\ Len(call.ret) = 2
    /\ \E i \in 1..Len(call.arg[1]) :
          call.arg[1][i].timestamp_seconds < call.arg[2] - WINDOW_HOURS * HOUR
    /\ \E n \in 1..Len(call.ret) :
          Cardinality({x.i : x \in {x \in WindowContributions(call.arg[1], call.arg[2]) :
                          /\ x.coin = call.ret[n].coin
                          /\ x.bucket_start = call.ret[n].bucket_start}}) = 2

\* The delta rows of a protocol among the records of the batch in progress
DeltaRowsOf(p) == {i \in 1..Len(vd.apt_data) : vd.apt_data[i].protocol_name = p}

\* C32: at batch end each concrete protocol's pool map collapses into at
\* most one delta row whose every column is the sum of that column over the
\* protocol's pools (a null column read as zero); a protocol whose every
\* column sums to zero has no delta row and a protocol with a non-zero
\* column sum has exactly one.
C32_PoolsCollapseToOneRow ==
    AfterCalculate =>
        \A p \in DappNames :
            LET all_zero == \A field \in {"vol", "fee"} : \A c \in Coins :
                                ProtocolTotal(BatchPools, p, field, c) = 0
            IN /\ Cardinality(DeltaRowsOf(p)) = IF all_zero THEN 0 ELSE 1
               /\ \A i \in DeltaRowsOf(p) : \A field \in {"vol", "fee"} : \A c \in Coins :
                     UnwrapOr(vd.apt_data[i][field][c], 0) =
                         ProtocolTotal(BatchPools, p, field, c)

\* The protocols whose PoolVolume has buy and sell fields (LiquidSwap's has
\* the total volumes only)
BuySellProtocols == DappNames \ {"liquidswap"}

\* C33: for every pool entry and every coin, after the swaps of a batch,
\* buy_volume + sell_volume <= 2 * total_volume; and a swap adds to exactly
\* one of buy_volume and sell_volume for each coin it touches (seen on the
\* pool entry of a batch of one swap: never both sides of a coin).
C33_BuySellWithinTotal ==
    AfterCalculate =>
        \A p \in BuySellProtocols : \A k \in DOMAIN BatchPools[p] : \A c \in Coins :
            LET entry == BatchPools[p][k]
            IN /\ entry.buy[c] + entry.sell[c] <= 2 * entry.vol[c]
               /\ (Len(item) = 1 /\ Len(item[1].events) = 1) =>
                     ~(entry.buy[c] # 0 /\ entry.sell[c] # 0)

\* The positions <<transaction, event>> of the Thala events of the batch in
\* progress that reach the extractor's direction test: in a transaction the
\* loop processes, with a payload that parses and has the required fields
ThalaPositions ==
    {x \in {<<t, e>> \in (1..Len(item)) \X (1..MaxUnits) : e <= Len(item[t].events)} :
        LET txn == item[x[1]]
            event == txn.events[x[2]]
        IN /\ event.type = "thala" /\ event.json_ok
           /\ event.missing \cap RequiredFields("thala") = {}
           /\ txn.timestamp # None /\ txn.txn_data = "User"
           /\ is_within_24h(UnwrapOr(txn.timestamp, 0), now)}

ThalaEventAt(x) == item[x[1]].events[x[2]]

\* The Thala events whose index pair and metadata extraction accepts
ThalaDirected(x) ==
    /\ Len(ThalaEventAt(x).sd.metadata) >= 2
    /\ <<ThalaEventAt(x).sd.idx_in, ThalaEventAt(x).sd.idx_out>> \in {<<0, 1>>, <<1, 0>>}

\* C34: Thala extraction takes the direction from the index pair: (0, 1)
\* gives from = metadata[0] and to = metadata[1], (1, 0) the reverse, and any
\* other pair or a metadata array of fewer than two entries fails, the event
\* contributing nothing. Seen on the batch: a directed event alone in its pool
\* sells the coin of metadata[idx_in] and buys the coin of
\* metadata[idx_out]; the pools of the batch are those of the directed
\* events, and a batch whose Thala events all fail emits no Thala row.
C34_ThalaDirectionFromIndexPair ==
    AfterCalculate =>
        /\ \A x \in ThalaPositions :
              LET sd == ThalaEventAt(x).sd
                  ret == extract_swap_data(ThalaEventAt(x))
              IN IF ThalaDirected(x)
                 THEN /\ ret # None
                      /\ UnwrapOr(ret, sd).from_token = sd.metadata[sd.idx_in + 1]
                      /\ UnwrapOr(ret, sd).to_token = sd.metadata[sd.idx_out + 1]
                 ELSE ret = None
        /\ DOMAIN BatchPools["thala"]
              = {ThalaEventAt(x).sd.pool : x \in {y \in ThalaPositions : ThalaDirected(y)}}
        /\ \A x \in ThalaPositions :
              LET sd == ThalaEventAt(x).sd
                  from == ThalaCoin(sd.metadata[sd.idx_in + 1])
                  to == ThalaCoin(sd.metadata[sd.idx_out + 1])
              IN (/\ ThalaDirected(x)
                  /\ \A y \in ThalaPositions \ {x} : ThalaEventAt(y).sd.pool # sd.pool
                  /\ from # None /\ to # None /\ from # to)
                 => LET f == UnwrapOr(from, "APT")
                        t == UnwrapOr(to, "APT")
                        entry == BatchPools["thala"][sd.pool]
                    IN /\ entry.sell[f] = DivPow10(sd.amount_in, CoinDecimals(f))
                                          - DivPow10(sd.protocol_fee_amount, CoinDecimals(f))
                       /\ entry.buy[t] = DivPow10(sd.amount_out, CoinDecimals(t))
                       /\ entry.sell[t] = 0 /\ entry.buy[f] = 0
        /\ (\A x \in ThalaPositions : ~ThalaDirected(x)) => DeltaRowsOf("thala") = {}

\* A batch with a (1, 0) swap and a (0, 1) swap in two pools was calculated:
\* the first pool sold APT for USDC, the second USDC for APT
C34_Witness ==
    /\ AfterCalculate
    /\ \E x, y \in ThalaPositions :
          /\ <<ThalaEventAt(x).sd.idx_in, ThalaEventAt(x).sd.idx_out>> = <<1, 0>>
          /\ <<ThalaEventAt(y).sd.idx_in, ThalaEventAt(y).sd.idx_out>> = <<0, 1>>
          /\ ThalaEventAt(x).sd.metadata = ThalaEventAt(y).sd.metadata
          /\ BatchPools["thala"][ThalaEventAt(x).sd.pool].sell["APT"] > 0
          /\ BatchPools["thala"][ThalaEventAt(x).sd.pool].buy["USDC"] > 0
          /\ BatchPools["thala"][ThalaEventAt(y).sd.pool].sell["USDC"] > 0
          /\ BatchPools["thala"][ThalaEventAt(y).sd.pool].buy["APT"] > 0

\* A batch whose Thala events all fail the direction test (same index twice,
\* an index past the pair, a one-entry metadata array) was calculated
C34_WitnessRejected ==
    /\ AfterCalculate
    /\ Cardinality(ThalaPositions) = 3
    /\ \A x \in ThalaPositions : ~ThalaDirected(x)
    /\ \E x \in ThalaPositions : Len(ThalaEventAt(x).sd.metadata) < 2
    /\ vd.apt_data = << >>

\* The bucket records of a coin among the deltas of the batch in progress
BucketDeltasOf(coin) ==
    {j \in 1..Len(vd.coin_volume_buckets) : vd.coin_volume_buckets[j].coin = coin}

\* C35: in the deltas of a batch, for every coin, the coin_volume_24h delta
\* of the coin (its buy_volume, equal to its sell_volume) is the sum of the
\* volumes of the bucket records emitted for the coin, and the coin has a
\* coin_volume_24h delta exactly when it has at least one bucket record.
C35_CoinDeltaIsBucketSum ==
    AfterCalculate =>
        \A c \in Coins :
            /\ (\E r \in CoinDeltaRecords : r.coin = c) <=> (BucketDeltasOf(c) # {})
            /\ Cardinality({r \in CoinDeltaRecords : r.coin = c}) <= 1
            /\ \A r \in CoinDeltaRecords :
                  r.coin = c =>
                     /\ r.buy_volume # None
                     /\ r.buy_volume = r.sell_volume
                     /\ UnwrapOr(r.buy_volume, 0)
                           = SeqSum([j \in 1..Len(vd.coin_volume_buckets) |->
                                 IF vd.coin_volume_buckets[j].coin = c
                                 THEN UnwrapOr(vd.coin_volume_buckets[j].volume, 0)
                                 ELSE 0])

\* A batch gave a coin several bucket records, one of them of swaps older
\* than 12 hours, and a non-zero delta, while another coin has neither
C35_Witness ==
    /\ AfterCalculate
    /\ \E c \in Coins :
          /\ Cardinality(BucketDeltasOf(c)) >= 2
          /\ \E j \in BucketDeltasOf(c) :
                vd.coin_volume_buckets[j].bucket_end - GMT7_OFFSET < now - 12 * HOUR
          /\ \E r \in CoinDeltaRecords : r.coin = c /\ UnwrapOr(r.buy_volume, 0) > 0
    /\ \E c \in Coins :
          /\ BucketDeltasOf(c) = {}
          /\ \A r \in CoinDeltaRecords : r.coin # c

\* The transactions of batches 1..n, oldest batch first
RECURSIVE Concatenated(_)
Concatenated(n) == IF n = 0 THEN << >> ELSE Concatenated(n - 1) \o hist[n].item

\* Every transaction handed over so far carries a timestamp within the 24
\* hours before the clock of each batch from its own on
AllWithin24h ==
    \A i \in 1..Len(hist) : \A t \in 1..Len(hist[i].item) :
        /\ hist[i].item[t].timestamp # None
        /\ \A k \in i..Len(hist) :
              is_within_24h(UnwrapOr(hist[i].item[t].timestamp, 0), hist[k].at)

\* C36: batch boundaries do not matter. With no staleness reset, eviction or
\* cap deletion in between and every transaction within 24h, the batches
\* processed so far (one, or a list split into two consecutive ones) leave
\* in apt_data (the 'aptos' row included), coin_volume_24h and
\* coin_volume_buckets the counters that the calculator derives from their
\* transactions taken as one batch.
C36_BatchBoundariesDoNotMatter ==
    (pc = "idle" /\ hist # << >> /\ NoResetOrEviction /\ AllWithin24h) =>
        LET whole == << VolumeCalculatorProcess(Concatenated(Len(hist)), LastBatch.at) >>
        IN /\ \A p \in DappNames : \A field \in {"vol", "fee"} : \A c \in Coins :
                 CountersOf(apt_data[p])[field][c] = ProtocolDeltaSum(whole, p, field, c)
           /\ AptosEqualsSum
           /\ \A c \in Coins : CoinCounters(coin_volume_24h[c]) = CoinDeltaSum(whole, c)
           /\ \A k \in DeltaBuckets(whole, 1) :
                 \E b \in BucketRowsAt(coin_volume_buckets, k.coin, k.bucket_start) :
                     UnwrapOr(b.volume, 0) = BucketDeltaSum(whole, k.coin, k.bucket_start)
           /\ \A b \in coin_volume_buckets :
                 UnwrapOr(b.volume, 0) = BucketDeltaSum(whole, b.coin, b.bucket_start)

\* C37: every persisted volume and fee counter of apt_data, coin_volume_24h
\* and coin_volume_buckets is >= 0 after any sequence of batches, whatever
\* payloads passed extraction (a Thala or Hyperion protocol fee above the
\* input amount and a Cellana fee rate above 10000 bps among them).
C37_CountersNonNegative ==
    pc = "idle" =>
        /\ \A p \in ProtocolNames : \A field \in {"vol", "fee"} : \A c \in Coins :
              CountersOf(apt_data[p])[field][c] >= 0
        /\ \A c \in Coins :
              CoinCounters(coin_volume_24h[c]).buy >= 0
              /\ CoinCounters(coin_volume_24h[c]).sell >= 0
        /\ \A b \in coin_volume_buckets : UnwrapOr(b.volume, 0) >= 0

\* The decimals the claim states for a coin
StatedDecimals(coin) == IF coin = "APT" THEN 8 ELSE 6

\* C38: token_type_to_coin and normalize_token_amount agree on every token:
\* a token that canonicalizes to coin c is normalized with divisor
\* 10^decimals(c) (10^8 for APT, 10^6 for USDC, USDT and WETH), and a token
\* normalized with divisor 1 is exactly one that canonicalizes to no coin, so
\* no amount recorded under a coin is left un-normalized.
C38_CoinAndDivisorAgree ==
    /\ call.fn = "normalize_token_amount" =>
          LET coin == token_type_to_coin(call.arg[1])
              raw_amount == call.arg[2]
          IN /\ coin # None =>
                   call.ret = DivPow10(raw_amount, StatedDecimals(UnwrapOr(coin, "APT")))
             /\ coin = None => call.ret = Dec(raw_amount, 0)
             /\ (raw_amount # 0 /\ call.ret = Dec(raw_amount, 0)) => coin = None
    /\ call.fn = "extract_coin_volumes_from_cellana" =>
          LET swap_data == call.arg[1]
              Recorded(token, amount) ==
                  {call.ret[i] : i \in {i \in 1..Len(call.ret) :
                      /\ call.ret[i].coin \in token_type_to_coin(token)
                      /\ call.ret[i].volume = DivPow10(amount, StatedDecimals(call.ret[i].coin))}}
          IN /\ Len(call.ret)
                  = Cardinality({side \in {"from", "to"} :
                        token_type_to_coin(IF side = "from" THEN swap_data.from_token
                                           ELSE swap_data.to_token) # None})
             /\ token_type_to_coin(swap_data.from_token) # None
                   => Recorded(swap_data.from_token, swap_data.amount_in) # {}
             /\ token_type_to_coin(swap_data.to_token) # None
                   => Recorded(swap_data.to_token, swap_data.amount_out) # {}
             /\ \A i \in 1..Len(call.ret) :
                   call.ret[i] \in Recorded(swap_data.from_token, swap_data.amount_in)
                                   \cup Recorded(swap_data.to_token, swap_data.amount_out)

\* A swap of the wrapped USDC, which no "USDC" substring gives away, for an
\* unknown token was extracted: one record, under USDC, of the amount
\* divided by 10^6
C38_Witness ==
    /\ call.fn = "extract_coin_volumes_from_cellana"
    /\ call.arg[1].from_token = WHUSDC_COIN_TYPE
    /\ call.arg[1].to_token = UNKNOWN_COIN_TYPE
    /\ call.arg[1].amount_in = MaxUnits * RawAmounts_Unit
    /\ call.ret = << CoinVolumeData("USDC", MaxUnits * Pow10(APT_DECIMALS - USDC_DECIMALS)) >>

====
